---- MODULE Spec2Model ----
(***************************************************************************)
(* Model of the membership-filtering core of astrogaia-python.py: the      *)
(* magnitude binning engine (check_min_and_max_values, get_bin_size,       *)
(* create_bins, get_and_check_created_bins) and the boundary interpolator  *)
(* (create_points_to_interpolate, interpolate_data_var, do_interpolation). *)
(*                                                                         *)
(* Numbers.  The program works on floats; the model works on an integer    *)
(* grid.  Magnitudes are counted in quarters of a magnitude (42 = 10.5     *)
(* mag, 78 = 19.5 mag, 100 = 25 mag) and every magnitude and every         *)
(* measured value of a record is an even grid number, so that np.median's  *)
(* midpoint of two values is again a grid number.  Quotients (the bin      *)
(* width, the slope and intercept of a segment) are kept as numerator and  *)
(* denominator and compared by cross-multiplication.  The square roots     *)
(* (np.std, np.sqrt) are rounded down to the grid.                         *)
(***************************************************************************)
EXTENDS Integers, Sequences, FiniteSets

VARIABLES
    astrodata,            \* the table handed to the binning and to the filter
    args,                 \* the argparse namespace (n_divisions is written back)
    ellipse_center,       \* ellipseVPDCenter(pmra, pmdec)
    pc,                   \* position of the run
    n_divisions_for_bins, \* local of get_and_check_created_bins
    counter,              \* local of get_and_check_created_bins
    totalCustomBins,      \* TotalBins.bins of the last create_bins call
    binSize,              \* (maxVal, minVal, binVal) of the last get_bin_size call
    attempts,             \* history: the create_bins calls made, with their verdict
    interpolations,       \* history: the do_interpolation calls of Cordoni_algorithm
    filtered_data,        \* the table Cordoni_algorithm / filter_data_by_mask returns
    input_data,           \* original_data: the table read from the file
    iterator,             \* loop variable of extractCordoniData
    object_info,          \* what get_RA_and_DEC finds for the object name
    identified,           \* local of extractCordoniData
    recycleCenterEllipse, \* local of extractCordoniData
    runs,                 \* history: the iterations of extractCordoniData
    w_array,              \* width_range of count_stars_inside_ellipse
    h_array,              \* height_range
    a_array,              \* angle_range
    position,             \* indices of w_it, h_it, angle_it in loop_Montecarlo
    max_in_stars,         \* local of loop_Montecarlo
    ellipse_parameters,   \* local of loop_Montecarlo, then the ellipse returned
    ellipse_mask          \* the mask of check_if_data_lies_inside_ellipse

\* the variables of the Cordoni binning and filtering
cordoni_vars == << astrodata, n_divisions_for_bins, counter, totalCustomBins,
                   binSize, attempts, interpolations >>

\* the variables of the loop of extractCordoniData
controller_vars == << iterator, object_info, identified, recycleCenterEllipse, runs >>

\* the variables of the ellipse search
ellipse_vars == << w_array, h_array, a_array, position, max_in_stars,
                   ellipse_parameters, ellipse_mask >>

vars == << args, ellipse_center, pc, filtered_data, input_data,
           cordoni_vars, controller_vars, ellipse_vars >>

----------------------------------------------------------------------------
(* Bounds of the model *)

\* largest number of rows of the input table
MaxRecords == 5

\* largest requested --n-divisions
MaxDivisions == 3

\* --n-divisions of the runs that filter
FilterDivisions == 2

(* Program constants, on the quarter-magnitude grid *)

\* default_lower_mag = 10.5
DefaultLowerMag == 42

\* default_upper_mag = 19.5
DefaultUpperMag == 78

\* secondCondition: -25. < mag
SentinelLow == -100

\* secondCondition: mag <= 25.
SentinelHigh == 100

\* minimum_per_bin = 2
MinimumPerBin == 2

\* --sigma, default 3.0
DefaultSigma == 3

\* magnitudes a row may carry: 10, 10.5, 12, 15, 17 and 25 mag
Mags == << 40, 42, 48, 60, 68, 100 >>

\* values a measured quantity of a row may carry
Vals == << 0, 4 >>

\* the custom limits tried with --set-limits: 12 mag and 27 mag
CustomLimits == { << 48, 108 >> }

Criteria == {"astrometric_gof_al", "mu_R", "parallax"}

----------------------------------------------------------------------------
(* numpy helpers *)

RECURSIVE SeqSum(_)
SeqSum(s) == IF s = << >> THEN 0 ELSE Head(s) + SeqSum(Tail(s))

\* np.amin
amin(s) == CHOOSE x \in {s[i] : i \in DOMAIN s} : \A i \in DOMAIN s : x <= s[i]

\* np.amax
amax(s) == CHOOSE x \in {s[i] : i \in DOMAIN s} : \A i \in DOMAIN s : x >= s[i]

\* the k-th smallest element of s (k = 1 is the minimum)
Sorted(s, k) ==
    CHOOSE x \in {s[i] : i \in DOMAIN s} :
        /\ Cardinality({i \in DOMAIN s : s[i] < x}) < k
        /\ Cardinality({i \in DOMAIN s : s[i] <= x}) >= k

\* np.median: the middle element, or the midpoint of the two middle elements.
\* Bin.__post_init__ calls it on empty lists too (numpy returns nan): 0 stands
\* for the nan, which is never read because an empty bin fails the validation.
median(s) ==
    LET n == Len(s) IN
    IF n = 0 THEN 0
    ELSE IF n % 2 = 1 THEN Sorted(s, (n + 1) \div 2)
    ELSE (Sorted(s, n \div 2) + Sorted(s, n \div 2 + 1)) \div 2

\* floor of the square root
Isqrt(n) == CHOOSE r \in 0..n : r * r <= n /\ (r + 1) * (r + 1) > n

\* np.std(ddof=1): sqrt( sum (x - mean)^2 / (n - 1) ), rounded down to the grid;
\* sum (x - mean)^2 = (n * sum x^2 - (sum x)^2) / n.  0 stands for the nan of
\* a list of fewer than 2 elements.
std(s) ==
    LET n  == Len(s)
        s1 == SeqSum(s)
        s2 == SeqSum([i \in DOMAIN s |-> s[i] * s[i]])
    IN IF n < 2 THEN 0 ELSE Isqrt((n * s2 - s1 * s1) \div (n * (n - 1)))

\* the elements of s that satisfy Keep, in order
RECURSIVE SelectIdx(_, _, _)
SelectIdx(s, keep, i) ==
    IF i > Len(s) THEN << >>
    ELSE (IF keep[i] THEN << s[i] >> ELSE << >>) \o SelectIdx(s, keep, i + 1)

\* a table filtered in place: the caller's table is what the filter left
original_after_filter_in_place(original_data, data_filtered) == data_filtered

\* copy.deepcopy(original_data) before the rows are selected: the selection
\* is made on the copy and the caller's table is what it was
original_after_deepcopy(original_data, data_filtered) == original_data

----------------------------------------------------------------------------
(* The binning engine *)

\* estimate_mu_sub_R: distance to the centre in the VPD
estimate_mu_sub_R(PM_alpha, PM_delta, previous_PM_alpha_median, previous_PM_delta_median) ==
    Isqrt((PM_alpha - previous_PM_alpha_median) * (PM_alpha - previous_PM_alpha_median)
          + (PM_delta - previous_PM_delta_median) * (PM_delta - previous_PM_delta_median))

\* check_min_and_max_values with the maximum replaced when it exceeds the UPPER limit
check_min_and_max_values_upper(minValue, maxValue, useCustomLimits, lower_mag, upper_mag) ==
    LET Cordoni_lower_mag == IF useCustomLimits THEN lower_mag ELSE DefaultLowerMag
        Cordoni_upper_mag == IF useCustomLimits THEN upper_mag ELSE DefaultUpperMag
    IN << IF minValue < Cordoni_lower_mag THEN Cordoni_lower_mag ELSE minValue,
          IF maxValue > Cordoni_upper_mag THEN Cordoni_upper_mag ELSE maxValue >>

\* check_min_and_max_values returning the custom limits as they are
check_min_and_max_values_direct(minValue, maxValue, useCustomLimits, lower_mag, upper_mag) ==
    IF useCustomLimits THEN << lower_mag, upper_mag >>
    ELSE << IF minValue < DefaultLowerMag THEN DefaultLowerMag ELSE minValue,
            IF maxValue > DefaultLowerMag THEN DefaultUpperMag ELSE maxValue >>

\* check_min_and_max_values: << minValue, maxValue >> after the cut
check_min_and_max_values(minValue, maxValue, useCustomLimits, lower_mag, upper_mag) ==
    LET Cordoni_lower_mag == IF useCustomLimits THEN lower_mag ELSE DefaultLowerMag
        Cordoni_upper_mag == IF useCustomLimits THEN upper_mag ELSE DefaultUpperMag
    IN << IF minValue < Cordoni_lower_mag THEN Cordoni_lower_mag ELSE minValue,
          IF maxValue > Cordoni_lower_mag THEN Cordoni_upper_mag ELSE maxValue >>

\* the two assertions of get_bin_size
get_bin_size_asserts(numberOfDivisions) ==
    numberOfDivisions # 0 /\ numberOfDivisions # 1

\* get_bin_size: maxValue, minValue and the bin size (maxValue - minValue) /
\* numberOfDivisions, the latter as numerator binNum over denominator binDen
get_bin_size(a, values, numberOfDivisions) ==
    LET mm == check_min_and_max_values(amin(values), amax(values), a.set_limits,
                                       a.mag_lower_limit, a.mag_upper_limit)
    IN [maxVal |-> mm[2], minVal |-> mm[1],
        binNum |-> mm[2] - mm[1], binDen |-> numberOfDivisions]

\* mainCondition of create_bins: minMag_mag_bin <= mag < maxMag_mag_bin, the
\* two edges given as numerators over the positive denominator den
mainCondition(minNum, maxNum, den, mag) ==
    minNum <= mag * den /\ mag * den < maxNum

\* secondCondition with both sentinel bounds exclusive
secondCondition_open(mag) == SentinelLow < mag /\ mag < SentinelHigh

\* secondCondition of create_bins: -25. < mag <= 25.
secondCondition(mag) == SentinelLow < mag /\ mag <= SentinelHigh

\* the rows create_bins collects into bin j (0-based)
BinMembers(data, minNum, maxNum, den) ==
    SelectIdx(data,
              [i \in DOMAIN data |->
                  mainCondition(minNum, maxNum, den, data[i].mag)
                  /\ secondCondition(data[i].mag)],
              1)

\* Bin: its parameterList and its edges (numerators over den)
Bin(ID, members, center, minNum, maxNum, den) ==
    [ID |-> ID,
     params |-> [G |-> [i \in DOMAIN members |-> members[i].mag],
                 as_gof_al |-> [i \in DOMAIN members |-> members[i].astrometric_gof_al],
                 parallax |-> [i \in DOMAIN members |-> members[i].parallax],
                 mu_R |-> [i \in DOMAIN members |->
                              estimate_mu_sub_R(members[i].pmra, members[i].pmdec,
                                                center.pmra, center.pmdec)]],
     minVal_mag |-> minNum, maxVal_mag |-> maxNum, den |-> den]

\* the statistics of Bin.__post_init__
median_G(bin) == median(bin.params.G)

std_dev_G(bin) == std(bin.params.G)

\* the upper edge of bin j (0-based) as a numerator over nDivision:
\* minVal + binVal * (j + 1)
UpperEdge(size, j) == size.minVal * size.binDen + size.binNum * (j + 1)

\* the lower edge of bin j (0-based) as a numerator over nDivision:
\* minVal + binVal * j
LowerEdge(size, j) == size.minVal * size.binDen + size.binNum * j

\* the loop of create_bins over the bins 1..nDivision
BinsOfSize(size, data, nDivision, center) ==
    [k \in 1..nDivision |->
        Bin(k,
            BinMembers(data, LowerEdge(size, k - 1), UpperEdge(size, k - 1), nDivision),
            center, LowerEdge(size, k - 1), UpperEdge(size, k - 1), nDivision)]

\* create_bins: the bins over the magnitude column
create_bins(a, data, nDivision, center) ==
    BinsOfSize(get_bin_size(a, [i \in DOMAIN data |-> data[i].mag], nDivision),
               data, nDivision, center)

\* the validation accepting bins of one element
check_bins_at_least_1(bins) ==
    \A k \in DOMAIN bins :
        /\ ~ (Len(bins[k].params.as_gof_al) < 1)
        /\ ~ (Len(bins[k].params.G) < 1)

\* check_if_total_bins_has_at_least_2_elems_or_more
check_if_total_bins_has_at_least_2_elems_or_more(bins) ==
    \A k \in DOMAIN bins :
        /\ ~ (Len(bins[k].params.as_gof_al) < MinimumPerBin)
        /\ ~ (Len(bins[k].params.G) < MinimumPerBin)

----------------------------------------------------------------------------
(* The boundary interpolator *)

\* eq_straight_line: np.linalg.lstsq on two points.  For x1 # x2 the line
\* through them; for x1 = x2 the minimum-norm least-squares solution, which is
\* m = x (y1 + y2) / (2 (x^2 + 1)), c = (y1 + y2) / (2 (x^2 + 1)).
\* m and c share the positive denominator den.
eq_straight_line(P1, P2) ==
    LET dx == P2.x - P1.x
        dy == P2.y - P1.y
    IN IF dx > 0 THEN [m |-> dy, c |-> P1.y * dx - dy * P1.x, den |-> dx]
       ELSE IF dx < 0 THEN [m |-> -dy, c |-> dy * P1.x - P1.y * dx, den |-> -dx]
       ELSE [m |-> P1.x * (P1.y + P2.y), c |-> P1.y + P2.y,
             den |-> 2 * (P1.x * P1.x + 1)]

\* the per-bin statistics create_points_to_interpolate reads for a criterion
temp_median_var(bin, varToInterpolate) ==
    IF varToInterpolate = "astrometric_gof_al" THEN median(bin.params.as_gof_al)
    ELSE IF varToInterpolate = "mu_R" THEN median(bin.params.mu_R)
    ELSE median(bin.params.parallax)

temp_std_var(bin, varToInterpolate) ==
    IF varToInterpolate = "astrometric_gof_al" THEN std(bin.params.as_gof_al)
    ELSE IF varToInterpolate = "mu_R" THEN std(bin.params.mu_R)
    ELSE std(bin.params.parallax)

\* singlePoint; the segment to the next point is m / den, c / den
singlePoint(ID, median_value, std_value, mag_median, mag_std, m, c, den) ==
    [ID |-> ID, median_value |-> median_value, std_value |-> std_value,
     mag_median |-> mag_median, mag_std |-> mag_std, m |-> m, c |-> c, den |-> den]

\* the segment from pts[i] to pts[i+1] at the given sigma
Segment(pts, i, sigma) ==
    eq_straight_line([x |-> pts[i].mag_median,
                      y |-> pts[i].median_value + sigma * pts[i].std_value],
                     [x |-> pts[i + 1].mag_median,
                      y |-> pts[i + 1].median_value + sigma * pts[i + 1].std_value])

\* points.points[index].m = inclination; points.points[index].c = intersection
WithSegment(pt, seg) == [pt EXCEPT !.m = seg.m, !.c = seg.c, !.den = seg.den]

\* create_points_to_interpolate, first loop: one point per bin
BasicPoints(bins, varToInterpolate) ==
    [k \in DOMAIN bins |->
        singlePoint(k, temp_median_var(bins[k], varToInterpolate),
                    temp_std_var(bins[k], varToInterpolate),
                    median_G(bins[k]), std_dev_G(bins[k]), 0, 0, 1)]

\* create_points_to_interpolate, second loop: the segments between
\* consecutive bins
FitSegments(pts, sigma) ==
    [k \in DOMAIN pts |->
        IF k < Len(pts) THEN WithSegment(pts[k], Segment(pts, k, sigma)) ELSE pts[k]]

\* a synthetic end point whose baseline is the median alone
EndPoint_median(ID, pt, mag, args_sigma) ==
    singlePoint(ID, pt.median_value, pt.std_value, mag, 0, 0, pt.median_value, 1)

\* a synthetic end point: the statistics of pt at the magnitude mag, flat at
\* median_value + args.sigma * std_value
EndPoint(ID, pt, mag, args_sigma) ==
    singlePoint(ID, pt.median_value, pt.std_value, mag, 0, 0,
                pt.median_value + args_sigma * pt.std_value, 1)

\* end points placed at the magnitudes of the first and the last bin point
WithEnds_at_medians(a, pts, bins) ==
    << EndPoint(0, pts[1], pts[1].mag_median, a.sigma) >>
    \o pts
    \o << EndPoint(pts[Len(pts)].ID + 1, pts[Len(pts)],
                   pts[Len(pts)].mag_median, a.sigma) >>

\* create_points_to_interpolate: the first and the last point are added, at
\* the smallest magnitude of the first bin and the largest of the last bin
WithEnds(a, pts, bins) ==
    << EndPoint(0, pts[1], amin(bins[1].params.G), a.sigma) >>
    \o pts
    \o << EndPoint(pts[Len(pts)].ID + 1, pts[Len(pts)],
                   amax(bins[Len(bins)].params.G), a.sigma) >>

\* points[-2].m, points[-2].c = seg; points[-1].c = points[-2].c
WithLastSegment(pts, seg) ==
    [k \in DOMAIN pts |->
        IF k = Len(pts) - 1 THEN WithSegment(pts[k], seg)
        ELSE IF k = Len(pts) THEN [pts[k] EXCEPT !.c = seg.c, !.den = seg.den]
        ELSE pts[k]]

\* create_points_to_interpolate: the semi-last point is fitted again, now
\* that the last one exists
RefitSemiLast(pts, sigma) ==
    WithLastSegment(pts, Segment(pts, Len(pts) - 1, sigma))

\* create_points_to_interpolate
create_points_to_interpolate(a, bins, varToInterpolate, sigma) ==
    RefitSemiLast(WithEnds(a, FitSegments(BasicPoints(bins, varToInterpolate), sigma), bins),
                  sigma)

\* get_important_parameters
get_important_parameters(original_data, center) ==
    [G |-> [i \in DOMAIN original_data |-> original_data[i].mag],
     as_gof_al |-> [i \in DOMAIN original_data |-> original_data[i].astrometric_gof_al],
     parallax |-> [i \in DOMAIN original_data |-> original_data[i].parallax],
     mu_R |-> [i \in DOMAIN original_data |->
                  estimate_mu_sub_R(original_data[i].pmra, original_data[i].pmdec,
                                    center.pmra, center.pmdec)]]

\* which_parameter
which_parameter(parameters_in_list, paramName) ==
    IF paramName = "astrometric_gof_al" THEN parameters_in_list.as_gof_al
    ELSE IF paramName = "parallax" THEN parameters_in_list.parallax
    ELSE parameters_in_list.mu_R

\* isInRange of interpolate_data_var: lower_mag <= mag_iteration < upper_mag
isInRange(pts, index, mag_iteration) ==
    pts[index].mag_median <= mag_iteration
    /\ mag_iteration < pts[index + 1].mag_median

\* the indices (1-based) of the intervals of the curve that hold the magnitude
Intervals(pts, mag_iteration) ==
    {index \in 1..(Len(pts) - 1) : isInRange(pts, index, mag_iteration)}

\* the interval the scan stops at: the first one in range
FirstInterval(pts, mag_iteration) ==
    CHOOSE index \in Intervals(pts, mag_iteration) :
        \A other \in Intervals(pts, mag_iteration) : index <= other

\* a comparison that keeps a value equal to evaluate_value
BelowLine_or_on(pt, mag_iteration, parameterToCompare) ==
    parameterToCompare * pt.den <= pt.m * mag_iteration + pt.c

\* parameterToCompare < evaluate_value, evaluate_value = m_val * mag + c_val
BelowLine(pt, mag_iteration, parameterToCompare) ==
    parameterToCompare * pt.den < pt.m * mag_iteration + pt.c

\* evaluate_value2 < parameterToCompare; the first interval of the second
\* curve uses median_val2 - sigma * std_val2
AboveLine2(pt, index, sigma, mag_iteration, parameterToCompare) ==
    IF index # 1
    THEN pt.m * mag_iteration + pt.c < parameterToCompare * pt.den
    ELSE pt.median_value - sigma * pt.std_value < parameterToCompare

\* a scan that excludes the rows it finds no interval for
notfound_entry_false == FALSE

\* the mask entry of a row that lies in no interval
notfound_entry == TRUE

\* the mask entry of one row
mask_entry(pts, pts2, sigma, mag_iteration, parameterToCompare) ==
    IF Intervals(pts, mag_iteration) = {} THEN notfound_entry
    ELSE LET index == FirstInterval(pts, mag_iteration)
         IN IF pts2 # << >>
            THEN AboveLine2(pts2[index], index, sigma, mag_iteration, parameterToCompare)
                 /\ BelowLine(pts[index], mag_iteration, parameterToCompare)
            ELSE BelowLine(pts[index], mag_iteration, parameterToCompare)

\* a mask that also drops the rows carrying the largest value of the rows given
interpolate_data_var_clipping(usefulData, interPoints, variableName, sigma, interPoints2) ==
    [j \in DOMAIN usefulData.G |->
        /\ mask_entry(interPoints, interPoints2, sigma, usefulData.G[j],
                      which_parameter(usefulData, variableName)[j])
        /\ which_parameter(usefulData, variableName)[j]
              < amax(which_parameter(usefulData, variableName))]

\* interpolate_data_var: the mask over the rows of usefulData
interpolate_data_var(usefulData, interPoints, variableName, sigma, interPoints2) ==
    LET useful_mag == usefulData.G
        parameter_to_get_list == which_parameter(usefulData, variableName)
    IN [j \in DOMAIN useful_mag |->
           mask_entry(interPoints, interPoints2, sigma, useful_mag[j],
                      parameter_to_get_list[j])]

\* a call that returns each row it keeps twice
InterpolationCall_doubling(varToInterpolate, dataToFilter, right, left, interpolated_stars) ==
    [varToInterpolate |-> varToInterpolate,
     dataToFilter |-> dataToFilter,
     points |-> right,
     points_left |-> left,
     mask |-> interpolated_stars,
     data_filtered |-> SelectIdx(dataToFilter, interpolated_stars, 1)
                       \o SelectIdx(dataToFilter, interpolated_stars, 1)]

\* what do_interpolation returns, with what it was called on
InterpolationCall(varToInterpolate, dataToFilter, right, left, interpolated_stars) ==
    [varToInterpolate |-> varToInterpolate,
     dataToFilter |-> dataToFilter,
     points |-> right,
     points_left |-> left,
     mask |-> interpolated_stars,
     data_filtered |-> SelectIdx(dataToFilter, interpolated_stars, 1)]

\* the mask of do_interpolation for the curves built
InterpolationOf(a, dataToFilter, varToInterpolate, sigma, center, right, left) ==
    InterpolationCall(varToInterpolate, dataToFilter, right, left,
        interpolate_data_var(get_important_parameters(dataToFilter, center), right,
                             varToInterpolate,
                             IF varToInterpolate = "parallax" THEN sigma ELSE a.sigma,
                             left))

\* do_interpolation: the curves, the mask and the rows kept
do_interpolation(a, bins, dataToFilter, varToInterpolate, sigma, center) ==
    InterpolationOf(a, dataToFilter, varToInterpolate, sigma, center,
        create_points_to_interpolate(a, bins, varToInterpolate, sigma),
        IF varToInterpolate = "parallax"
        THEN create_points_to_interpolate(a, bins, varToInterpolate, -sigma)
        ELSE << >>)

----------------------------------------------------------------------------
(* The run: get_and_check_created_bins, then Cordoni_algorithm *)

\* the row of magnitude Mags[i] whose measured quantity for the criterion is
\* Vals[v]; its other quantities are 0
Row(criterion, i, v) ==
    [mag |-> Mags[i],
     astrometric_gof_al |-> IF criterion = "astrometric_gof_al" THEN Vals[v] ELSE 0,
     parallax |-> IF criterion = "parallax" THEN Vals[v] ELSE 0,
     pmra |-> IF criterion = "mu_R" THEN Vals[v] ELSE 0,
     pmdec |-> 0]

\* the rows of the model, numbered by magnitude and then by the nv first values
RowNumber(criterion, nv, k) ==
    Row(criterion, ((k - 1) \div nv) + 1, ((k - 1) % nv) + 1)

\* the tables of n rows numbered lo..hi, in non-decreasing order (the order of
\* the rows of the table is irrelevant to the binning and the mask)
RECURSIVE Tables(_, _, _, _, _)
Tables(criterion, nv, n, lo, hi) ==
    IF n = 0 THEN { << >> }
    ELSE UNION { { << RowNumber(criterion, nv, k) >> \o t :
                     t \in Tables(criterion, nv, n - 1, k, hi) } :
                 k \in lo..hi }

\* the namespace of a run
Namespace(n_divisions, set_limits, limits, filters) ==
    [n_divisions |-> n_divisions,
     set_limits |-> set_limits,
     mag_lower_limit |-> limits[1],
     mag_upper_limit |-> limits[2],
     sigma |-> DefaultSigma,
     no_as_gof_al |-> "astrometric_gof_al" \notin filters,
     no_mu_R |-> "mu_R" \notin filters,
     no_parallax |-> "parallax" \notin filters,
     n_iterations |-> 1,
     re_compute_ellipse_center |-> FALSE]

\* the ellipse search has not been started
EllipseIdle ==
    /\ w_array = << >>
    /\ h_array = << >>
    /\ a_array = << >>
    /\ position = << >>
    /\ max_in_stars = 0
    /\ ellipse_parameters = << >>
    /\ ellipse_mask = << >>

\* the locals of get_and_check_created_bins and Cordoni_algorithm before
\* the first call
CordoniIdle ==
    /\ n_divisions_for_bins = args.n_divisions
    /\ counter = 0
    /\ totalCustomBins = << >>
    /\ binSize = << >>
    /\ attempts = << >>
    /\ interpolations = << >>
    /\ filtered_data = << >>

\* what a run of one iteration on a table starts from: the first iteration,
\* an object not found in the archives, the centre at the origin
Start ==
    /\ ellipse_center = [pmra |-> 0, pmdec |-> 0]
    /\ pc = "get_and_check_created_bins"
    /\ CordoniIdle
    /\ input_data = astrodata
    /\ iterator = 1
    /\ object_info = [identifiedAs |-> "Other", pmra |-> 0, pmdec |-> 0]
    /\ identified = "Other"
    /\ recycleCenterEllipse = FALSE
    /\ runs = << >>
    /\ EllipseIdle

\* the binning of a table: any magnitudes, any requested count, default or
\* custom limits
InitBins ==
    /\ \E n \in 1..MaxRecords, d \in 1..MaxDivisions :
          /\ astrodata \in Tables("none", 1, n, 1, Len(Mags))
          /\ \/ args = Namespace(d, FALSE, << DefaultLowerMag, DefaultUpperMag >>, Criteria)
             \/ \E limits \in CustomLimits :
                   args = Namespace(d, TRUE, limits, Criteria)
    /\ Start

\* the filtering of a table by one criterion, the other two filters switched
\* off, with the default limits; the magnitudes are those below the default
\* upper limit (all of Mags but the last)
Init ==
    /\ \E criterion \in Criteria, n \in 1..MaxRecords :
          /\ astrodata \in Tables(criterion, Len(Vals), n, 1,
                                  (Len(Mags) - 1) * Len(Vals))
          /\ args = Namespace(FilterDivisions, FALSE,
                              << DefaultLowerMag, DefaultUpperMag >>, {criterion})
    /\ Start

\* the decrement taking two divisions away
next_divisions_by_two(n) == n - 2

\* n_divisions_for_bins -= 1
next_divisions(n) == n - 1

\* if n_divisions_for_bins < 2: sys.exit(1)
no_divisions_left(n) == n < 2

\* a return that leaves args.n_divisions as it was requested
n_divisions_kept(a, n) == a

\* setattr(args, 'n_divisions', n_divisions_for_bins)
n_divisions_written_back(a, n) == [a EXCEPT !.n_divisions = n]

\* get_bin_size raises AssertionError for 0 or 1 divisions
AssertionError ==
    /\ pc = "get_and_check_created_bins"
    /\ ~ get_bin_size_asserts(n_divisions_for_bins)
    /\ pc' = "AssertionError"
    /\ UNCHANGED << astrodata, args, ellipse_center, n_divisions_for_bins, counter,
                    totalCustomBins, binSize, attempts, interpolations, filtered_data >>
    /\ UNCHANGED << input_data, controller_vars, ellipse_vars >>

\* one turn of the while loop of get_and_check_created_bins: create_bins, the
\* validation, and then either the return (with the count written back to
\* args.n_divisions) or the decrement and, below 2 divisions, sys.exit(1)
CreateAndCheck ==
    /\ pc = "get_and_check_created_bins"
    /\ get_bin_size_asserts(n_divisions_for_bins)
    /\ totalCustomBins' = create_bins(args, astrodata, n_divisions_for_bins, ellipse_center)
    /\ binSize' = get_bin_size(args, [i \in DOMAIN astrodata |-> astrodata[i].mag],
                              n_divisions_for_bins)
    /\ LET validElementsNumbInBins ==
               check_if_total_bins_has_at_least_2_elems_or_more(totalCustomBins')
       IN /\ attempts' = Append(attempts, [nDivision |-> n_divisions_for_bins,
                                          valid |-> validElementsNumbInBins])
          /\ IF validElementsNumbInBins
             THEN /\ pc' = "Cordoni_algorithm"
                  /\ args' = n_divisions_written_back(args, n_divisions_for_bins)
                  /\ UNCHANGED << n_divisions_for_bins, counter >>
             ELSE /\ n_divisions_for_bins' = next_divisions(n_divisions_for_bins)
                  /\ counter' = counter + 1
                  /\ pc' = IF no_divisions_left(next_divisions(n_divisions_for_bins))
                           THEN "exit"
                           ELSE "get_and_check_created_bins"
                  /\ UNCHANGED args
    /\ UNCHANGED << astrodata, ellipse_center, interpolations, filtered_data >>
    /\ UNCHANGED << input_data, controller_vars, ellipse_vars >>

\* the filters of Cordoni_algorithm, in its order, with the switch of each
Filters(a) ==
    << [name |-> "astrometric_gof_al", off |-> a.no_as_gof_al],
       [name |-> "mu_R", off |-> a.no_mu_R],
       [name |-> "parallax", off |-> a.no_parallax] >>

\* do_and_print_interpolation assigns var_to_print for "mu_R" and for
\* "parallax"; for "astrometric_gof_al" neither varToInterpolate.lower (not
\* called) nor "as_gof_al" matches, and the print that follows raises
\* UnboundLocalError
var_to_print_assigned(varToInterpolate) ==
    varToInterpolate \in {"mu_R", "parallax"}

\* an enabled filter whose do_and_print_interpolation raises
raises_UnboundLocalError(a) ==
    \E k \in DOMAIN Filters(a) :
        ~ Filters(a)[k].off /\ ~ var_to_print_assigned(Filters(a)[k].name)

RECURSIVE FilterCalls(_, _, _, _, _)

\* the bins of the rows kept, where they are valid bins
rebinned(a, bins, data, center) ==
    IF data # << >>
       /\ check_if_total_bins_has_at_least_2_elems_or_more(
              create_bins(a, data, a.n_divisions, center))
    THEN create_bins(a, data, a.n_divisions, center)
    ELSE bins

\* a next filter whose bins are rebuilt from the rows the call kept
CallThen_rebinned(a, bins, center, k, call) ==
    << call >> \o FilterCalls(a, rebinned(a, bins, call.data_filtered, center),
                              call.data_filtered, center, k + 1)

\* a next filter given the rows the call was given, not the rows it kept
CallThen_unchained(a, bins, center, k, call) ==
    << call >> \o FilterCalls(a, bins, call.dataToFilter, center, k + 1)

\* the next filter runs on the rows the call kept
CallThen(a, bins, center, k, call) ==
    << call >> \o FilterCalls(a, bins, call.data_filtered, center, k + 1)

\* the do_interpolation calls of Cordoni_algorithm from filter k on, each on
\* the rows its predecessor kept, up to a filter that raises
FilterCalls(a, bins, data, center, k) ==
    IF k > Len(Filters(a)) THEN << >>
    ELSE IF Filters(a)[k].off THEN FilterCalls(a, bins, data, center, k + 1)
    ELSE IF ~ var_to_print_assigned(Filters(a)[k].name) THEN << >>
    ELSE CallThen(a, bins, center, k,
                  do_interpolation(a, bins, data, Filters(a)[k].name, a.sigma, center))

\* Cordoni_algorithm: the enabled filters one after the other; the rows are
\* returned unless the print of a filter raised
Cordoni_algorithm ==
    /\ pc = "Cordoni_algorithm"
    /\ interpolations' = FilterCalls(args, totalCustomBins, astrodata, ellipse_center, 1)
    /\ filtered_data' = IF raises_UnboundLocalError(args) THEN filtered_data
                        ELSE IF interpolations' = << >> THEN astrodata
                        ELSE interpolations'[Len(interpolations')].data_filtered
    /\ pc' = IF raises_UnboundLocalError(args) THEN "UnboundLocalError" ELSE "done"
    /\ astrodata' = original_after_deepcopy(astrodata, filtered_data')
    /\ UNCHANGED << args, ellipse_center, n_divisions_for_bins, counter,
                    totalCustomBins, binSize, attempts >>
    /\ UNCHANGED << input_data, controller_vars, ellipse_vars >>

\* get_and_check_created_bins alone
NextBins ==
    \/ AssertionError
    \/ CreateAndCheck

SpecBins == InitBins /\ [][NextBins]_vars

\* get_and_check_created_bins and then Cordoni_algorithm
Next ==
    \/ CreateAndCheck
    \/ Cordoni_algorithm

Spec == Init /\ [][Next]_vars

----------------------------------------------------------------------------
(* One iteration with any of the three filters enabled *)

\* the largest table filtered by several criteria
MaxSeqRecords == 5

\* the --sigma of these runs and of the controller runs
SigmaTried == 1

\* the values (astrometric_gof_al, pmra, parallax) of the rows of 10.5 mag
\* filtered by several criteria: no outlier, or an outlier in one quantity
SeqVals == << << 0, 0, 0 >>, << 4, 0, 0 >>, << 0, 4, 0 >>, << 0, 0, 4 >> >>

\* the rows filtered by several criteria: one of 10.5 mag for each of SeqVals,
\* and one of 15 mag for each of Vals, carried by its three quantities
SeqRow(k) ==
    IF k <= Len(SeqVals)
    THEN [mag |-> Mags[2],
          astrometric_gof_al |-> SeqVals[k][1],
          pmra |-> SeqVals[k][2],
          parallax |-> SeqVals[k][3],
          pmdec |-> 0]
    ELSE [mag |-> Mags[4],
          astrometric_gof_al |-> Vals[k - Len(SeqVals)],
          pmra |-> Vals[k - Len(SeqVals)],
          parallax |-> Vals[k - Len(SeqVals)],
          pmdec |-> 0]

\* the tables of n such rows, in non-decreasing order of row number
RECURSIVE SeqTables(_, _)
SeqTables(n, lo) ==
    IF n = 0 THEN { << >> }
    ELSE UNION { { << SeqRow(k) >> \o t : t \in SeqTables(n - 1, k) } :
                 k \in lo..Len(SeqVals) + Len(Vals) }

\* a table of 4 to MaxSeqRecords rows and two or three filters enabled
InitSeq ==
    /\ \E n \in 4..MaxSeqRecords : astrodata \in SeqTables(n, 1)
    /\ \E filters \in { f \in SUBSET Criteria : Cardinality(f) >= 2 } :
          args = [Namespace(FilterDivisions, FALSE,
                            << DefaultLowerMag, DefaultUpperMag >>, filters)
                    EXCEPT !.sigma = SigmaTried]
    /\ Start

\* Cordoni_algorithm called once more, on the rows it returned, with the bins,
\* the centre and the sigma of the first call
Cordoni_algorithm_again ==
    /\ pc = "done"
    /\ astrodata' = filtered_data
    /\ interpolations' = FilterCalls(args, totalCustomBins, filtered_data, ellipse_center, 1)
    /\ filtered_data' = interpolations'[Len(interpolations')].data_filtered
    /\ pc' = "done again"
    /\ UNCHANGED << args, ellipse_center, n_divisions_for_bins, counter,
                    totalCustomBins, binSize, attempts >>
    /\ UNCHANGED << input_data, controller_vars, ellipse_vars >>

\* get_and_check_created_bins, Cordoni_algorithm, and Cordoni_algorithm again
NextSeq ==
    \/ CreateAndCheck
    \/ Cordoni_algorithm
    \/ Cordoni_algorithm_again

SpecSeq == InitSeq /\ [][NextSeq]_vars

----------------------------------------------------------------------------
(* The checks of extractCordoniData before the data is read *)

\* the --n-iterations tried: negative, zero and positive ones
IterationsTried == -1..2

\* the --mag-lower-limit and --mag-upper-limit tried: 10.5 and 19.5 mag, the
\* same inverted, and 12 mag twice
LimitsTried == { << 42, 78 >>, << 78, 42 >>, << 48, 48 >> }

\* the --set-mag-filter tried, each with what .replace('_','').lower() makes
\* of it
FilterNamesTried ==
    { [given |-> "G", lowered |-> "g"], [given |-> "g_rp", lowered |-> "grp"],
      [given |-> "G_BP", lowered |-> "gbp"], [given |-> "V", lowered |-> "v"] }

\* the options the checks read
CheckedNamespace(n_iterations, off, set_limits, limits, show_all_plots, unplotted, filter_name) ==
    [n_iterations |-> n_iterations,
     no_as_gof_al |-> "astrometric_gof_al" \in off,
     no_mu_R |-> "mu_R" \in off,
     no_parallax |-> "parallax" \in off,
     set_limits |-> set_limits,
     mag_lower_limit |-> limits[1],
     mag_upper_limit |-> limits[2],
     show_all_plots |-> show_all_plots,
     no_plot_as_gof_al |-> "astrometric_gof_al" \in unplotted,
     no_plot_mu_R |-> "mu_R" \in unplotted,
     no_plot_parallax |-> "parallax" \in unplotted,
     set_mag_filter |-> filter_name]

\* if args.n_iterations <= 0
invalid_iterations(a) ==
    a.n_iterations <= 0

\* if args.no_as_gof_al and args.no_mu_R and args.no_parallax
no_filter_left(a) ==
    a.no_as_gof_al /\ a.no_mu_R /\ a.no_parallax

\* limits compared only when --set-limits is given
limits_inverted_if_custom(a) ==
    a.set_limits /\ a.mag_lower_limit >= a.mag_upper_limit

\* if args.mag_lower_limit >= args.mag_upper_limit
limits_inverted(a) ==
    a.mag_lower_limit >= a.mag_upper_limit

\* if args.show_all_plots and args.no_plot_mu_R and args.no_plot_as_gof_al
\* and args.no_plot_parallax
no_plot_left(a) ==
    a.show_all_plots /\ a.no_plot_mu_R /\ a.no_plot_as_gof_al /\ a.no_plot_parallax

\* get_mag_filter_name: the name is one the program knows
get_mag_filter_name(filter_name) ==
    filter_name.lowered \in {"grp", "gbp", "g"}

\* the options as parsed; nothing is read and no iteration has started
InitCheck ==
    /\ \E n \in IterationsTried, off \in SUBSET Criteria, set_limits \in BOOLEAN,
          limits \in LimitsTried, show_all_plots \in BOOLEAN,
          unplotted \in SUBSET Criteria, filter_name \in FilterNamesTried :
          args = CheckedNamespace(n, off, set_limits, limits, show_all_plots,
                                  unplotted, filter_name)
    /\ pc = "check_arguments_provided_for_Cordoni_algorithm"
    /\ astrodata = << >>
    /\ input_data = << >>
    /\ ellipse_center = [pmra |-> 0, pmdec |-> 0]
    /\ n_divisions_for_bins = 0
    /\ counter = 0
    /\ totalCustomBins = << >>
    /\ binSize = << >>
    /\ attempts = << >>
    /\ interpolations = << >>
    /\ filtered_data = << >>
    /\ iterator = 0
    /\ object_info = [identifiedAs |-> "Other", pmra |-> 0, pmdec |-> 0]
    /\ identified = ""
    /\ recycleCenterEllipse = FALSE
    /\ runs = << >>
    /\ EllipseIdle

\* check_arguments_provided_for_Cordoni_algorithm: sys.exit(1) or return
check_arguments_provided_for_Cordoni_algorithm ==
    /\ pc = "check_arguments_provided_for_Cordoni_algorithm"
    /\ pc' = IF \/ invalid_iterations(args)
                \/ no_filter_left(args)
                \/ limits_inverted(args)
                \/ no_plot_left(args)
             THEN "exit"
             ELSE "get_mag_filter_name"
    /\ UNCHANGED << args, ellipse_center, filtered_data, input_data, cordoni_vars,
                    controller_vars, ellipse_vars >>

\* the call of get_mag_filter_name in extractCordoniData: sys.exit(1) or on
\* to get_data_from_file_or_query
CheckFilterName ==
    /\ pc = "get_mag_filter_name"
    /\ pc' = IF get_mag_filter_name(args.set_mag_filter)
             THEN "get_data_from_file_or_query"
             ELSE "exit"
    /\ UNCHANGED << args, ellipse_center, filtered_data, input_data, cordoni_vars,
                    controller_vars, ellipse_vars >>

\* the start of extractCordoniData
NextCheck ==
    \/ check_arguments_provided_for_Cordoni_algorithm
    \/ CheckFilterName

SpecCheck == InitCheck /\ [][NextCheck]_vars

----------------------------------------------------------------------------
(* The controller: the iterations of extractCordoniData *)

\* the largest --n-iterations
MaxIterations == 2

\* the largest table handed to the controller
MaxIterRecords == 6

\* what get_RA_and_DEC may find for the object name: a globular cluster or
\* an open cluster with the proper motion of its catalogue, or nothing
ObjectInfos ==
    { [identifiedAs |-> "GlobularCluster", pmra |-> 4, pmdec |-> 0],
      [identifiedAs |-> "OpenCluster", pmra |-> 4, pmdec |-> 0],
      [identifiedAs |-> "Other", pmra |-> 0, pmdec |-> 0] }

\* get_median_pmra_pmdec; round(., 3) leaves a grid number as it is
get_median_pmra_pmdec(data) ==
    [pmra |-> median([i \in DOMAIN data |-> data[i].pmra]),
     pmdec |-> median([i \in DOMAIN data |-> data[i].pmdec])]

\* get_pmra_based_on_object_identification: the centre (the identification
\* returned with it is info.identifiedAs)
get_pmra_based_on_object_identification(info, data) ==
    IF info.identifiedAs \in {"GlobularCluster", "OpenCluster"}
    THEN [pmra |-> info.pmra, pmdec |-> info.pmdec]
    ELSE get_median_pmra_pmdec(data)

\* a centre that is never recycled
recycle_never(id) ==
    FALSE

\* recycle_center_ellipse
recycle_center_ellipse(id) ==
    id = "GlobularCluster" \/ id = "OpenCluster"

\* a centre that the switch leaves alone in the first iteration
must_recompute_after_first(it, recycle, a) ==
    it # 1 /\ (~ recycle \/ a.re_compute_ellipse_center)

\* (iterator != 1 and not recycleCenterEllipse) or args.re_compute_ellipse_center
must_recompute(it, recycle, a) ==
    (it # 1 /\ ~ recycle) \/ a.re_compute_ellipse_center

\* the pmra a row handed to the controller may carry
PmraTried == << 0, 4, 8 >>

\* the rows handed to the controller: 10.5 mag or 15 mag, each with one of
\* the pmra tried
IterRow(k) ==
    [Row("mu_R", IF k <= Len(PmraTried) THEN 2 ELSE 4, 1)
        EXCEPT !.pmra = PmraTried[((k - 1) % Len(PmraTried)) + 1]]

\* the tables of n such rows, in non-decreasing order of row number
RECURSIVE IterTables(_, _)
IterTables(n, lo) ==
    IF n = 0 THEN { << >> }
    ELSE UNION { { << IterRow(k) >> \o t : t \in IterTables(n - 1, k) } :
                 k \in lo..2 * Len(PmraTried) }

\* the filters of the controller runs: the three of them, as by default, or
\* mu_R alone (--no-as-gof-al --no-parallax)
FiltersTried == { Criteria, {"mu_R"} }

\* a table of 4 to MaxIterRecords rows, an object, 1 to MaxIterations
\* iterations, the filters, with and without --re-compute-ellipse-center
InitIter ==
    /\ \E n \in 4..MaxIterRecords :
          input_data \in IterTables(n, 1)
    /\ object_info \in ObjectInfos
    /\ \E N \in 1..MaxIterations, re_compute \in BOOLEAN, filters \in FiltersTried :
          args = [Namespace(FilterDivisions, FALSE,
                            << DefaultLowerMag, DefaultUpperMag >>, filters)
                    EXCEPT !.sigma = SigmaTried,
                           !.n_iterations = N,
                           !.re_compute_ellipse_center = re_compute]
    /\ iterator = 1
    /\ pc = "iteration"
    /\ astrodata = << >>
    /\ ellipse_center = [pmra |-> 0, pmdec |-> 0]
    /\ identified = ""
    /\ recycleCenterEllipse = FALSE
    /\ runs = << >>
    /\ CordoniIdle
    /\ EllipseIdle

\* the body of the for loop of extractCordoniData down to the call of
\* get_and_check_created_bins: the data to work on and the centre
DetermineCenter ==
    /\ pc = "iteration"
    /\ astrodata' = IF iterator = 1 THEN input_data ELSE filtered_data
    /\ identified' = IF iterator = 1 THEN object_info.identifiedAs ELSE identified
    /\ recycleCenterEllipse' = IF iterator = 1
                               THEN recycle_center_ellipse(identified')
                               ELSE recycleCenterEllipse
    /\ ellipse_center' =
          IF must_recompute(iterator, recycleCenterEllipse', args)
          THEN get_median_pmra_pmdec(astrodata')
          ELSE IF iterator = 1
          THEN get_pmra_based_on_object_identification(object_info, astrodata')
          ELSE ellipse_center
    /\ n_divisions_for_bins' = args.n_divisions
    /\ counter' = 0
    /\ attempts' = << >>
    /\ pc' = "get_and_check_created_bins"
    /\ UNCHANGED << args, filtered_data, input_data, totalCustomBins, binSize,
                    interpolations, iterator, object_info, runs, ellipse_vars >>

\* a loop that gives up one iteration early
in_range_but_last(it, a) ==
    it + 1 < a.n_iterations

\* for iterator in range(1, args.n_iterations+1): another iteration follows
in_range(it, a) ==
    it < a.n_iterations

\* what an iteration worked on, with which centre, and what it produced
RunOf(it) ==
    [iterator |-> it, data_to_work |-> astrodata, center |-> ellipse_center,
     n_divisions |-> args.n_divisions, attempts |-> attempts,
     filtered_data |-> filtered_data]

\* the for loop goes to its next iteration
NextIteration ==
    /\ pc = "done"
    /\ in_range(iterator, args)
    /\ runs' = Append(runs, RunOf(iterator))
    /\ iterator' = iterator + 1
    /\ pc' = "iteration"
    /\ UNCHANGED << args, ellipse_center, filtered_data, input_data, cordoni_vars,
                    object_info, identified, recycleCenterEllipse, ellipse_vars >>

\* the for loop is over: extractCordoniData returns filtered_data
ReturnFiltered ==
    /\ pc = "done"
    /\ ~ in_range(iterator, args)
    /\ runs' = Append(runs, RunOf(iterator))
    /\ pc' = "returned"
    /\ UNCHANGED << args, ellipse_center, filtered_data, input_data, cordoni_vars,
                    iterator, object_info, identified, recycleCenterEllipse,
                    ellipse_vars >>

\* extractCordoniData
NextIter ==
    \/ DetermineCenter
    \/ CreateAndCheck
    \/ Cordoni_algorithm
    \/ NextIteration
    \/ ReturnFiltered

SpecIter == InitIter /\ [][NextIter]_vars

\* the magnitudes of a table filling three bins: 10.5, 15 and 17 mag, two
\* rows each
DivMags == << 2, 2, 4, 4, 5, 5 >>

\* the tables of two rows at each of these magnitudes, each row with one of
\* the pmra tried
DivTables ==
    { [k \in DOMAIN DivMags |->
          [Row("mu_R", DivMags[k], 1) EXCEPT !.pmra = PmraTried[f[k]]]] :
      f \in [DOMAIN DivMags -> DOMAIN PmraTried] }

\* the controller with any requested --n-divisions from 2 to MaxDivisions:
\* a table of 4 to MaxIterRecords rows at two magnitudes or a table of rows
\* at three, of an object not found in the archives, 1 to MaxIterations
\* iterations, the mu_R filter alone
InitDiv ==
    /\ \/ \E n \in 4..MaxIterRecords :
             input_data \in IterTables(n, 1)
       \/ input_data \in DivTables
    /\ object_info = [identifiedAs |-> "Other", pmra |-> 0, pmdec |-> 0]
    /\ \E N \in 1..MaxIterations, d \in 2..MaxDivisions :
          args = [Namespace(d, FALSE, << DefaultLowerMag, DefaultUpperMag >>, {"mu_R"})
                    EXCEPT !.sigma = SigmaTried,
                           !.n_iterations = N]
    /\ iterator = 1
    /\ pc = "iteration"
    /\ astrodata = << >>
    /\ ellipse_center = [pmra |-> 0, pmdec |-> 0]
    /\ identified = ""
    /\ recycleCenterEllipse = FALSE
    /\ runs = << >>
    /\ CordoniIdle
    /\ EllipseIdle

SpecDiv == InitDiv /\ [][NextIter]_vars

----------------------------------------------------------------------------
(* The ellipse search: extractEllipseData, count_stars_inside_ellipse,     *)
(* loop_Montecarlo, check_if_data_lies_inside_ellipse, filter_data_by_mask *)
(*                                                                         *)
(* Proper motions, widths and heights are whole grid numbers; the          *)
(* inclinations are -90, 0 and 90 degrees, whose rotations by              *)
(* 180 - inclination have the cosines and sines 0, 1 and -1.               *)

\* the largest number of stars of a table of the ellipse search
MaxStars == 2

\* the largest n_divisions_in_width, _in_height and _in_inclination
MaxSteps == 2

\* the proper motions (pmra, pmdec) a star may have
StarPositions == << << 0, 0 >>, << 0, 3 >>, << 3, 0 >>, << 9, 9 >> >>

\* the centres of the ellipse tried
Centers == { [pmra |-> 0, pmdec |-> 0], [pmra |-> 3, pmdec |-> 0] }

\* the --width, --height and --inclination pairs tried (sorted, positive
\* widths and heights, as check_width_and_height_provided_for_ellipse
\* leaves them)
WidthPairs == { << 4, 4 >>, << 4, 8 >> }
HeightPairs == { << 4, 4 >>, << 4, 8 >>, << 8, 8 >> }
InclinationPairs == { << 0, 0 >>, << -90, 90 >> }

\* the star of proper motion StarPositions[k]
Star(k) ==
    [mag |-> 0, astrometric_gof_al |-> 0, parallax |-> 0,
     pmra |-> StarPositions[k][1], pmdec |-> StarPositions[k][2]]

\* the tables of n stars numbered lo..hi, in non-decreasing order
RECURSIVE StarTables(_, _, _)
StarTables(n, lo, hi) ==
    IF n = 0 THEN { << >> }
    ELSE UNION { { << Star(k) >> \o t : t \in StarTables(n - 1, k, hi) } :
                 k \in lo..hi }

\* n_step values from minimum that stop one step short of maximum
linspace_open(minimum, maximum, n_step) ==
    [i \in 1..n_step |-> minimum + ((i - 1) * (maximum - minimum)) \div n_step]

\* np.linspace(minimum, maximum, n_step): n_step evenly spaced values from
\* minimum; one step gives the minimum alone
linspace(minimum, maximum, n_step) ==
    [i \in 1..n_step |->
        IF n_step = 1 THEN minimum
        ELSE minimum + ((i - 1) * (maximum - minimum)) \div (n_step - 1)]

\* IteratorClass
IteratorClass(minimum, maximum, n_step) ==
    [minimum |-> minimum, maximum |-> maximum, n_step |-> n_step]

\* create_IteratorClass_objects_for_ellipse
create_IteratorClass_objects_for_ellipse(a) ==
    [width_it |-> IteratorClass(amin(a.width), amax(a.width), a.n_divisions_in_width),
     height_it |-> IteratorClass(amin(a.height), amax(a.height), a.n_divisions_in_height),
     incl_it |-> IteratorClass(amin(a.inclination), amax(a.inclination),
                               a.n_divisions_in_inclination)]

\* EllipseClass
EllipseClass(center_x, center_y, width, height, inclination) ==
    [center_x |-> center_x, center_y |-> center_y, width |-> width,
     height |-> height, inclination |-> inclination]

\* np.cos(np.radians(180. - angle_inclination))
cos_angle(angle_inclination) ==
    IF angle_inclination = 0 THEN -1 ELSE 0

\* np.sin(np.radians(180. - angle_inclination))
sin_angle(angle_inclination) ==
    IF angle_inclination = 90 THEN 1
    ELSE IF angle_inclination = -90 THEN -1
    ELSE 0

\* DefineEllipse for one point: rad_cc as the quotient num / den,
\*   rad_cc = xct^2 / (w/2)^2 + yct^2 / (h/2)^2
\*          = (4 xct^2 h^2 + 4 yct^2 w^2) / (w^2 h^2).
\* For a width or a height of 0 numpy divides by zero without raising: the
\* point at the centre gives 0/0 = nan (num = 0, den = 0), every other point
\* gives inf (num > 0, den = 0).
DefineEllipse(x, y, x_center, y_center, ell_width, ell_height, angle_inclination) ==
    LET xc  == x - x_center
        yc  == y - y_center
        xct == xc * cos_angle(angle_inclination) - yc * sin_angle(angle_inclination)
        yct == xc * sin_angle(angle_inclination) + yc * cos_angle(angle_inclination)
    IN IF ell_width = 0 \/ ell_height = 0
       THEN [num |-> xc * xc + yc * yc, den |-> 0]
       ELSE [num |-> 4 * xct * xct * ell_height * ell_height
                     + 4 * yct * yct * ell_width * ell_width,
             den |-> ell_width * ell_width * ell_height * ell_height]

\* r <= 1 (False for nan and for inf)
r_le_1(r) == r.den > 0 /\ r.num <= r.den

\* r > 1 (False for nan, True for inf)
r_gt_1(r) == (r.den > 0 /\ r.num > r.den) \/ (r.den = 0 /\ r.num > 0)

\* ellipse_zone of loop_Montecarlo / rad_cc of check_if_data_lies_inside_ellipse
ellipse_zone(data, x_center, y_center, w, h, angle) ==
    [k \in DOMAIN data |->
        DefineEllipse(data[k].pmra, data[k].pmdec, x_center, y_center, w, h, angle)]

\* counter_in of loop_Montecarlo
counter_in(zone) == Cardinality({k \in DOMAIN zone : r_le_1(zone[k])})

\* check_if_max_value
check_if_max_value(value, current_max) ==
    IF value > current_max THEN << value, TRUE >> ELSE << current_max, FALSE >>

\* a search that skips no combination
is_circle_never(w_it, h_it) == FALSE

\* if w_it == h_it: continue
is_circle(w_it, h_it) == w_it = h_it

\* the combination loop_Montecarlo is at
w_it == w_array[position[1]]
h_it == h_array[position[2]]
angle_it == a_array[position[3]]

\* the indices of the combination after pos in the three nested for loops
\* (the width index runs past the end when the loops are over)
next_position(pos) ==
    IF pos[3] < Len(a_array) THEN << pos[1], pos[2], pos[3] + 1 >>
    ELSE IF pos[2] < Len(h_array) THEN << pos[1], pos[2] + 1, 1 >>
    ELSE << pos[1] + 1, 1, 1 >>

\* the three for loops are over
loops_over == position[1] > Len(w_array)

\* a table of stars read from the file, a centre, and the ranges of the search
InitEllipse ==
    /\ \E n \in 0..MaxStars : input_data \in StarTables(n, 1, Len(StarPositions))
    /\ ellipse_center \in Centers
    /\ \E w \in WidthPairs, h \in HeightPairs, i \in InclinationPairs,
          nw \in 1..MaxSteps, nh \in 1..MaxSteps, ni \in 1..MaxSteps :
          args = [width |-> w, height |-> h, inclination |-> i,
                  n_divisions_in_width |-> nw, n_divisions_in_height |-> nh,
                  n_divisions_in_inclination |-> ni, n_divisions |-> 0]
    /\ pc = "count_stars_inside_ellipse"
    /\ astrodata = << >>
    /\ CordoniIdle
    /\ iterator = 0
    /\ object_info = [identifiedAs |-> "Other", pmra |-> 0, pmdec |-> 0]
    /\ identified = "Other"
    /\ recycleCenterEllipse = FALSE
    /\ runs = << >>
    /\ EllipseIdle

\* count_stars_inside_ellipse up to the first combination of
\* loop_Montecarlo: the three ranges, max_in_stars = 0 and the placeholder
\* ellipse
count_stars_inside_ellipse ==
    /\ pc = "count_stars_inside_ellipse"
    /\ w_array' = linspace(create_IteratorClass_objects_for_ellipse(args).width_it.minimum,
                           create_IteratorClass_objects_for_ellipse(args).width_it.maximum,
                           create_IteratorClass_objects_for_ellipse(args).width_it.n_step)
    /\ h_array' = linspace(create_IteratorClass_objects_for_ellipse(args).height_it.minimum,
                           create_IteratorClass_objects_for_ellipse(args).height_it.maximum,
                           create_IteratorClass_objects_for_ellipse(args).height_it.n_step)
    /\ a_array' = linspace(create_IteratorClass_objects_for_ellipse(args).incl_it.minimum,
                           create_IteratorClass_objects_for_ellipse(args).incl_it.maximum,
                           create_IteratorClass_objects_for_ellipse(args).incl_it.n_step)
    /\ position' = << 1, 1, 1 >>
    /\ max_in_stars' = 0
    /\ ellipse_parameters' = EllipseClass(0, 0, 0, 0, 0)
    /\ pc' = "loop_Montecarlo"
    /\ UNCHANGED << args, ellipse_center, filtered_data, input_data, cordoni_vars,
                    controller_vars, ellipse_mask >>

\* loop_Montecarlo, a combination with w_it == h_it: continue
SkipCircle ==
    /\ pc = "loop_Montecarlo"
    /\ ~ loops_over
    /\ is_circle(w_it, h_it)
    /\ position' = next_position(position)
    /\ UNCHANGED << args, ellipse_center, pc, filtered_data, input_data, cordoni_vars,
                    controller_vars, w_array, h_array, a_array, max_in_stars,
                    ellipse_parameters, ellipse_mask >>

\* loop_Montecarlo, any other combination: the stars inside are counted and
\* the ellipse is kept if the count is a new maximum
CountInside ==
    /\ pc = "loop_Montecarlo"
    /\ ~ loops_over
    /\ ~ is_circle(w_it, h_it)
    /\ max_in_stars' =
          check_if_max_value(
              counter_in(ellipse_zone(input_data, ellipse_center.pmra,
                                      ellipse_center.pmdec, w_it, h_it, angle_it)),
              max_in_stars)[1]
    /\ ellipse_parameters' =
          IF check_if_max_value(
                 counter_in(ellipse_zone(input_data, ellipse_center.pmra,
                                         ellipse_center.pmdec, w_it, h_it, angle_it)),
                 max_in_stars)[2]
          THEN EllipseClass(ellipse_center.pmra, ellipse_center.pmdec,
                            w_it, h_it, angle_it)
          ELSE ellipse_parameters
    /\ position' = next_position(position)
    /\ UNCHANGED << args, ellipse_center, pc, filtered_data, input_data, cordoni_vars,
                    controller_vars, w_array, h_array, a_array, ellipse_mask >>

\* loop_Montecarlo returns ellipse_parameters; extractEllipseData goes on to
\* check_if_data_lies_inside_ellipse with it, without looking at it
ReturnEllipse ==
    /\ pc = "loop_Montecarlo"
    /\ loops_over
    /\ pc' = "check_if_data_lies_inside_ellipse"
    /\ UNCHANGED << args, ellipse_center, filtered_data, input_data, cordoni_vars,
                    controller_vars, ellipse_vars >>

\* the radii for which the loop appends an entry
appended(rad_cc) == {k \in DOMAIN rad_cc : r_le_1(rad_cc[k]) \/ r_gt_1(rad_cc[k])}

\* check_if_data_lies_inside_ellipse: the mask, or sys.exit(1) when the mask
\* and the data differ in length
check_if_data_lies_inside_ellipse ==
    /\ pc = "check_if_data_lies_inside_ellipse"
    /\ ellipse_mask' =
          SelectIdx([k \in DOMAIN input_data |->
                        r_le_1(ellipse_zone(input_data, ellipse_parameters.center_x,
                                            ellipse_parameters.center_y,
                                            ellipse_parameters.width,
                                            ellipse_parameters.height,
                                            ellipse_parameters.inclination)[k])],
                    [k \in DOMAIN input_data |->
                        k \in appended(ellipse_zone(input_data,
                                                    ellipse_parameters.center_x,
                                                    ellipse_parameters.center_y,
                                                    ellipse_parameters.width,
                                                    ellipse_parameters.height,
                                                    ellipse_parameters.inclination))],
                    1)
    /\ pc' = IF Len(ellipse_mask') # Len(input_data) THEN "exit"
             ELSE "filter_data_by_mask"
    /\ UNCHANGED << args, ellipse_center, filtered_data, input_data, cordoni_vars,
                    controller_vars, w_array, h_array, a_array, position, max_in_stars,
                    ellipse_parameters >>

\* filter_data_by_mask: the rows of a copy of the table that the mask keeps
filter_data_by_mask ==
    /\ pc = "filter_data_by_mask"
    /\ filtered_data' = SelectIdx(input_data, ellipse_mask, 1)
    /\ input_data' = original_after_deepcopy(input_data, filtered_data')
    /\ pc' = "done"
    /\ UNCHANGED << args, ellipse_center, cordoni_vars, controller_vars, ellipse_vars >>

\* extractEllipseData, one pass of its loop
NextEllipse ==
    \/ count_stars_inside_ellipse
    \/ SkipCircle
    \/ CountInside
    \/ ReturnEllipse
    \/ check_if_data_lies_inside_ellipse
    \/ filter_data_by_mask

SpecEllipse == InitEllipse /\ [][NextEllipse]_vars

----------------------------------------------------------------------------
(* Claims about the binning engine, checked under SpecBins *)

\* the division count the caller asked for
Requested == IF attempts = << >> THEN n_divisions_for_bins ELSE attempts[1].nDivision

\* get_and_check_created_bins has returned its TotalBins
Returned == pc = "Cordoni_algorithm"

\* the magnitude column of the table
MagColumn == [i \in DOMAIN astrodata |-> astrodata[i].mag]

\* C1: whenever get_and_check_created_bins returns, every bin of the BinSet
\* it returns has at least 2 elements in its magnitude list and in its
\* astrometric_gof_al list, and the division count written back is at most
\* the requested count and at least 2.
C1_ReturnedBinsValid ==
    Returned =>
        /\ \A k \in DOMAIN totalCustomBins :
              /\ Len(totalCustomBins[k].params.G) >= 2
              /\ Len(totalCustomBins[k].params.as_gof_al) >= 2
        /\ Len(totalCustomBins) = args.n_divisions
        /\ args.n_divisions <= Requested
        /\ args.n_divisions >= 2

\* C1 witness: a return after a shrink, with fewer divisions than requested
C1_Witness ==
    /\ Returned
    /\ args.n_divisions < Requested
    /\ Len(totalCustomBins) >= 2

\* C2: for a requested count d0 >= 2 the loop builds bins for d0, d0-1, ...
\* in that order, one less per failed validation, stops at the first count
\* that validates, ends in sys.exit(1) once 2 divisions have failed, makes at
\* most d0-1 attempts and never builds fewer than 2 divisions.
C2_ShrinkAndRetry ==
    Requested >= 2 =>
        /\ \A i \in DOMAIN attempts :
              /\ attempts[i].nDivision = Requested - (i - 1)
              /\ attempts[i].nDivision >= 2
              /\ i < Len(attempts) => ~ attempts[i].valid
        /\ Len(attempts) <= Requested - 1
        /\ pc \in {"get_and_check_created_bins", "Cordoni_algorithm", "exit"}
        /\ Returned <=> (attempts # << >> /\ attempts[Len(attempts)].valid)
        /\ pc = "exit" <=> (Len(attempts) = Requested - 1
                            /\ ~ attempts[Len(attempts)].valid)

\* C2 witness: the fatal exit after the counts 3 and 2 have both failed
C2_Witness ==
    /\ pc = "exit"
    /\ Len(attempts) = 2
    /\ attempts[1].nDivision = 3
    /\ attempts[2].nDivision = 2

\* the rows create_bins is to collect into bin k (1-based) of the last
\* BinSet: those in [min + (k-1) w, min + k w) and inside the sentinels
\* (the upper sentinel bound included or not)
Collected(k, upperIncluded) ==
    LET d  == Len(totalCustomBins)
        lo == binSize.minVal * d + (k - 1) * (binSize.maxVal - binSize.minVal)
        hi == binSize.minVal * d + k * (binSize.maxVal - binSize.minVal)
        In(m) == /\ lo <= m * d
                 /\ m * d < hi
                 /\ SentinelLow < m
                 /\ IF upperIncluded THEN m <= SentinelHigh ELSE m < SentinelHigh
    IN SelectSeq(MagColumn, In)

\* C3 as stated: a row is collected into bin j iff its magnitude is in the
\* half-open interval of the bin and strictly between -25 and 25.
C3_MembershipOpenSentinels ==
    \A k \in DOMAIN totalCustomBins :
        totalCustomBins[k].params.G = Collected(k, FALSE)

\* C3 amended: a row is collected into bin j iff its magnitude is in the
\* half-open interval of the bin and -25 < magnitude <= 25 (the upper
\* sentinel bound is inclusive).
C3_Membership ==
    \A k \in DOMAIN totalCustomBins :
        totalCustomBins[k].params.G = Collected(k, TRUE)

\* C3 witness: a row of magnitude exactly 25 is a member of a bin, and a row
\* at the upper edge of a bin is not a member of that bin
C3_Witness ==
    /\ \E k \in DOMAIN totalCustomBins :
          \E i \in DOMAIN totalCustomBins[k].params.G :
              totalCustomBins[k].params.G[i] = SentinelHigh
    /\ \E k \in DOMAIN totalCustomBins, j \in DOMAIN astrodata :
          /\ astrodata[j].mag * totalCustomBins[k].den = totalCustomBins[k].maxVal_mag
          /\ \A i \in DOMAIN totalCustomBins[k].params.G :
                totalCustomBins[k].params.G[i] # astrodata[j].mag

\* C4 as stated: in every BinSet create_bins produces each bin has
\* minMag < maxMag, the maxMag of a bin is the minMag of the next, and no
\* row is a member of two bins.
C4_BinsOrderedContiguous ==
    /\ \A k \in DOMAIN totalCustomBins :
          totalCustomBins[k].minVal_mag < totalCustomBins[k].maxVal_mag
    /\ \A k \in DOMAIN totalCustomBins :
          k < Len(totalCustomBins) =>
              totalCustomBins[k].maxVal_mag = totalCustomBins[k + 1].minVal_mag
    /\ \A k, l \in DOMAIN totalCustomBins :
          k # l =>
              \A i \in DOMAIN totalCustomBins[k].params.G :
                  \A j \in DOMAIN totalCustomBins[l].params.G :
                      totalCustomBins[k].params.G[i] # totalCustomBins[l].params.G[j]

----------------------------------------------------------------------------
(* Claims about the classification, checked under Spec *)

\* the value of row j of a do_interpolation call for the criterion of the call
ValueOf(call, j) ==
    IF call.varToInterpolate = "astrometric_gof_al"
    THEN call.dataToFilter[j].astrometric_gof_al
    ELSE IF call.varToInterpolate = "parallax"
    THEN call.dataToFilter[j].parallax
    ELSE estimate_mu_sub_R(call.dataToFilter[j].pmra, call.dataToFilter[j].pmdec,
                           ellipse_center.pmra, ellipse_center.pmdec)

\* the magnitude of row j of a call
MagOf(call, j) == call.dataToFilter[j].mag

\* the magnitude lies in [pt[i].magnitude, pt[i+1].magnitude)
InInterval(call, i, mag) ==
    /\ call.points[i].mag_median <= mag
    /\ mag < call.points[i + 1].mag_median

\* the magnitude lies in none of the intervals of the curve
InNoInterval(call, mag) ==
    \A i \in 1..(Len(call.points) - 1) : ~ InInterval(call, i, mag)

\* interval i is the first one, in ascending order, that holds the magnitude
ScanStopsAt(call, i, mag) ==
    /\ InInterval(call, i, mag)
    /\ \A h \in 1..(i - 1) : ~ InInterval(call, h, mag)

\* the value is strictly below the upper boundary of segment i
StrictlyBelow(call, i, mag, value) ==
    value * call.points[i].den < call.points[i].m * mag + call.points[i].c

\* the value is on the upper boundary of segment i
OnUpper(call, i, mag, value) ==
    value * call.points[i].den = call.points[i].m * mag + call.points[i].c

\* the value is strictly above the lower boundary (parallax) of segment i
StrictlyAbove(call, i, mag, value) ==
    IF i = 1
    THEN call.points_left[1].median_value
           - args.sigma * call.points_left[1].std_value < value
    ELSE call.points_left[i].m * mag + call.points_left[i].c
           < value * call.points_left[i].den

\* the strict comparison of the criterion against segment i
StrictlyInside(call, i, mag, value) ==
    /\ StrictlyBelow(call, i, mag, value)
    /\ call.varToInterpolate = "parallax" => StrictlyAbove(call, i, mag, value)

\* median + sigma * std of the first bin, the flat baseline of the first
\* (synthetic) point
Baseline(call) ==
    call.points[2].median_value + args.sigma * call.points[2].std_value

\* C7: a row whose magnitude lies in none of the intervals of the boundary
\* curve gets the mask entry TRUE, for every criterion and whatever its
\* value; the mask has one entry per row.
C7_OutsideCurveKept ==
    \A c \in DOMAIN interpolations :
        /\ Len(interpolations[c].mask) = Len(interpolations[c].dataToFilter)
        /\ \A j \in DOMAIN interpolations[c].dataToFilter :
              InNoInterval(interpolations[c], MagOf(interpolations[c], j))
                  => interpolations[c].mask[j]

\* C7 witness: a row in no interval is kept although its value is not below
\* the baseline of the curve, next to a row inside the curve that is excluded
C7_Witness ==
    \E c \in DOMAIN interpolations :
        /\ \E j \in DOMAIN interpolations[c].dataToFilter :
              /\ InNoInterval(interpolations[c], MagOf(interpolations[c], j))
              /\ ValueOf(interpolations[c], j) >= Baseline(interpolations[c])
              /\ interpolations[c].mask[j]
        /\ \E j \in DOMAIN interpolations[c].dataToFilter :
              /\ ~ InNoInterval(interpolations[c], MagOf(interpolations[c], j))
              /\ ~ interpolations[c].mask[j]

\* C8 as stated: a row whose magnitude is below the first (synthetic) point
\* of the curve is kept iff its value is below median + sigma * std of the
\* first bin (single-curve criteria).
C8_BelowFirstPointClassified ==
    \A c \in DOMAIN interpolations :
        interpolations[c].varToInterpolate # "parallax" =>
            \A j \in DOMAIN interpolations[c].dataToFilter :
                MagOf(interpolations[c], j) < interpolations[c].points[1].mag_median
                    => (interpolations[c].mask[j]
                          <=> ValueOf(interpolations[c], j) < Baseline(interpolations[c]))

\* C8 amended: a row whose magnitude is below the first (synthetic) point of
\* the curve lies in no interval and is kept whatever its value; a row whose
\* magnitude lies in the first interval [pt[0].magnitude, pt[1].magnitude) is
\* classified against the flat baseline median + sigma * std of the first
\* bin (for parallax between median - sigma * std and median + sigma * std),
\* not against a fitted line.
C8_FirstPointBaseline ==
    \A c \in DOMAIN interpolations :
        \A j \in DOMAIN interpolations[c].dataToFilter :
            /\ MagOf(interpolations[c], j) < interpolations[c].points[1].mag_median
                  => interpolations[c].mask[j]
            /\ InInterval(interpolations[c], 1, MagOf(interpolations[c], j))
                  => (interpolations[c].mask[j]
                        <=> /\ ValueOf(interpolations[c], j) < Baseline(interpolations[c])
                            /\ interpolations[c].varToInterpolate = "parallax"
                                  => interpolations[c].points[2].median_value
                                       - args.sigma * interpolations[c].points[2].std_value
                                     < ValueOf(interpolations[c], j))

\* C8 witness: a row below the first point is kept with a value that is not
\* below the baseline, while a row of the first interval with the same value
\* is excluded
C8_Witness ==
    \E c \in DOMAIN interpolations :
        \E j, k \in DOMAIN interpolations[c].dataToFilter :
            /\ MagOf(interpolations[c], j) < interpolations[c].points[1].mag_median
            /\ ValueOf(interpolations[c], j) >= Baseline(interpolations[c])
            /\ interpolations[c].mask[j]
            /\ InInterval(interpolations[c], 1, MagOf(interpolations[c], k))
            /\ ValueOf(interpolations[c], k) = ValueOf(interpolations[c], j)
            /\ ~ interpolations[c].mask[k]

\* C9: the comparisons are strict: a row in an interval of the curve is kept
\* iff its value is strictly below the boundary at its magnitude (single
\* curve), or strictly between the lower and the upper boundary (parallax);
\* a value equal to a boundary is excluded.
C9_StrictComparisons ==
    \A c \in DOMAIN interpolations :
        \A j \in DOMAIN interpolations[c].dataToFilter :
            \A i \in 1..(Len(interpolations[c].points) - 1) :
                ScanStopsAt(interpolations[c], i, MagOf(interpolations[c], j))
                    => (interpolations[c].mask[j]
                          <=> StrictlyInside(interpolations[c], i,
                                             MagOf(interpolations[c], j),
                                             ValueOf(interpolations[c], j)))

\* C9 witness: a row whose value is exactly on the upper boundary at its
\* magnitude is excluded
C9_Witness ==
    \E c \in DOMAIN interpolations :
        \E j \in DOMAIN interpolations[c].dataToFilter :
            \E i \in 1..(Len(interpolations[c].points) - 1) :
                /\ ScanStopsAt(interpolations[c], i, MagOf(interpolations[c], j))
                /\ OnUpper(interpolations[c], i, MagOf(interpolations[c], j),
                           ValueOf(interpolations[c], j))
                /\ ~ interpolations[c].mask[j]

\* C10 as stated: a row whose magnitude equals the magnitude of an interior
\* curve point i is evaluated with segment i (slope and intercept of pt[i]):
\* its mask entry is the strict comparison against that segment.
C10_LowerBoundUsesOwnSegment ==
    \A c \in DOMAIN interpolations :
        \A j \in DOMAIN interpolations[c].dataToFilter :
            \A i \in 2..(Len(interpolations[c].points) - 1) :
                MagOf(interpolations[c], j) = interpolations[c].points[i].mag_median
                    => (interpolations[c].mask[j]
                          <=> StrictlyInside(interpolations[c], i,
                                             MagOf(interpolations[c], j),
                                             ValueOf(interpolations[c], j)))

\* the curves of a call: the right one, and the left one for parallax
CurvesOf(call) ==
    IF call.points_left = << >> THEN { call.points }
    ELSE { call.points, call.points_left }

\* the magnitudes of the rows a call filters
MagsOf(call) == [j \in DOMAIN call.dataToFilter |-> call.dataToFilter[j].mag]

\* C11 as stated: every curve create_points_to_interpolate returns has
\* strictly increasing magnitudes across all its points, the synthetic first
\* and last point included.
C11_CurveStrictlyIncreasing ==
    \A c \in DOMAIN interpolations :
        \A pts \in CurvesOf(interpolations[c]) :
            \A i \in 1..(Len(pts) - 1) :
                pts[i].mag_median < pts[i + 1].mag_median

\* C12 as stated: the synthetic first and last point sit at the smallest and
\* the largest magnitude of the dataset being filtered and carry the median
\* and std of the first and of the last bin point.
C12_EndsAtGlobalExtremes ==
    \A c \in DOMAIN interpolations :
        \A pts \in CurvesOf(interpolations[c]) :
            /\ pts[1].mag_median = amin(MagsOf(interpolations[c]))
            /\ pts[Len(pts)].mag_median = amax(MagsOf(interpolations[c]))
            /\ pts[1].median_value = pts[2].median_value
            /\ pts[1].std_value = pts[2].std_value
            /\ pts[Len(pts)].median_value = pts[Len(pts) - 1].median_value
            /\ pts[Len(pts)].std_value = pts[Len(pts) - 1].std_value

\* C12 amended: the synthetic first point sits at the smallest magnitude of
\* the records of the first bin and the synthetic last point at the largest
\* magnitude of the records of the last bin (records outside every bin do
\* not count); they carry the median and std of the first and of the last
\* bin point, and the curve has one point per bin plus these two.
C12_EndsAtBinExtremes ==
    \A c \in DOMAIN interpolations :
        \A pts \in CurvesOf(interpolations[c]) :
            /\ Len(pts) = Len(totalCustomBins) + 2
            /\ pts[1].mag_median = amin(totalCustomBins[1].params.G)
            /\ pts[Len(pts)].mag_median
                 = amax(totalCustomBins[Len(totalCustomBins)].params.G)
            /\ pts[1].median_value = pts[2].median_value
            /\ pts[1].std_value = pts[2].std_value
            /\ pts[Len(pts)].median_value = pts[Len(pts) - 1].median_value
            /\ pts[Len(pts)].std_value = pts[Len(pts) - 1].std_value

\* C12 witness: a dataset with a record below every bin, whose synthetic
\* first point sits above the smallest magnitude of the dataset and below
\* the first bin point
C12_Witness ==
    \E c \in DOMAIN interpolations :
        /\ amin(MagsOf(interpolations[c])) < interpolations[c].points[1].mag_median
        /\ interpolations[c].points[1].mag_median
             < interpolations[c].points[2].mag_median

----------------------------------------------------------------------------
(* Claims about the ellipse search, checked under SpecEllipse *)

\* loop_Montecarlo has returned
SearchOver ==
    pc \in {"check_if_data_lies_inside_ellipse", "filter_data_by_mask", "done", "exit"}

\* the positions of the combinations the search evaluates: those with w # h
Evaluated ==
    {p \in (DOMAIN w_array) \X (DOMAIN h_array) \X (DOMAIN a_array) :
        w_array[p[1]] # h_array[p[2]]}

\* the place of a position in the order outer width, middle height, inner
\* inclination
Rank(p) == ((p[1] - 1) * Len(h_array) + (p[2] - 1)) * Len(a_array) + p[3]

\* the star lies inside the ellipse of centre (cx, cy), width w, height h
\* and inclination a: for 0 degrees the axes are those of the ellipse, for
\* 90 and -90 degrees they are exchanged
Inside(star, cx, cy, w, h, a) ==
    LET dx == star.pmra - cx
        dy == star.pmdec - cy
    IN IF a = 0
       THEN 4 * (dx * dx * h * h + dy * dy * w * w) <= w * w * h * h
       ELSE 4 * (dy * dy * h * h + dx * dx * w * w) <= w * w * h * h

\* the number of stars inside the ellipse of the combination at position p
InsideCount(p) ==
    Cardinality({k \in DOMAIN input_data :
        Inside(input_data[k], ellipse_center.pmra, ellipse_center.pmdec,
               w_array[p[1]], h_array[p[2]], a_array[p[3]])})

\* the ellipse returned has the width, height and inclination of position p
ReturnedIs(p) ==
    /\ ellipse_parameters.width = w_array[p[1]]
    /\ ellipse_parameters.height = h_array[p[2]]
    /\ ellipse_parameters.inclination = a_array[p[3]]

\* the ellipse returned has the centre the caller passed
CenterIsGiven ==
    /\ ellipse_parameters.center_x = ellipse_center.pmra
    /\ ellipse_parameters.center_y = ellipse_center.pmdec

\* the ellipse returned is the placeholder EllipseClass(0, 0, 0, 0, 0)
ReturnedIsPlaceholder ==
    ellipse_parameters = [center_x |-> 0, center_y |-> 0, width |-> 0,
                          height |-> 0, inclination |-> 0]

\* C13 as stated: the search returns the evaluated combination (w # h) whose
\* inside-count is maximal, and among those of maximal count the one
\* evaluated first in the order width, height, inclination.
C13_ReturnsFirstMaximum ==
    (SearchOver /\ Evaluated # {}) =>
        \E p \in Evaluated :
            /\ ReturnedIs(p)
            /\ \A q \in Evaluated : InsideCount(q) <= InsideCount(p)
            /\ \A q \in Evaluated :
                  InsideCount(q) = InsideCount(p) => Rank(p) <= Rank(q)

\* C14 as stated: whenever a combination with w # h is evaluated, the ellipse
\* returned has the width, height and inclination of an evaluated
\* combination and the given centre, also when every count is zero.
C14_ReturnsEvaluatedCombination ==
    (SearchOver /\ Evaluated # {}) =>
        /\ \E p \in Evaluated : ReturnedIs(p)
        /\ CenterIsGiven

\* C15 as stated: when no combination with w # h is evaluated the ellipse
\* returned has width = height = inclination = 0 and the centre passed in
\* by the caller.
C15_DegenerateKeepsCenter ==
    (SearchOver /\ Evaluated = {}) =>
        /\ ellipse_parameters.width = 0
        /\ ellipse_parameters.height = 0
        /\ ellipse_parameters.inclination = 0
        /\ CenterIsGiven

C17_DegenerateNotUsedAsFilter ==
    pc \in {"check_if_data_lies_inside_ellipse", "filter_data_by_mask"} =>
        /\ ellipse_parameters.width # 0
        /\ ellipse_parameters.height # 0

\* C18 as stated: check_if_data_lies_inside_ellipse returns, for every input,
\* a mask with one boolean per point in input order, entry k being TRUE iff
\* point k has radius^2 <= 1 for the ellipse given.
C18_MaskOnePerPoint ==
    /\ pc # "exit"
    /\ pc \in {"filter_data_by_mask", "done"} =>
          /\ Len(ellipse_mask) = Len(input_data)
          /\ (ellipse_parameters.width # 0 /\ ellipse_parameters.height # 0) =>
                \A k \in DOMAIN input_data :
                    ellipse_mask[k] <=>
                        Inside(input_data[k], ellipse_parameters.center_x,
                               ellipse_parameters.center_y, ellipse_parameters.width,
                               ellipse_parameters.height,
                               ellipse_parameters.inclination)

----------------------------------------------------------------------------
(* Claims about the controller, checked under SpecIter *)

\* the iterations recorded so far are 1, 2, ... and each one worked on what
\* its predecessor produced, the first one on the data read from the file
Chained(rs) ==
    \A i \in DOMAIN rs :
        /\ rs[i].iterator = i
        /\ rs[i].data_to_work = IF i = 1 THEN input_data ELSE rs[i - 1].filtered_data

\* one step of the controller, as C19 describes it
C19_Step ==
    /\ pc = "iteration" =>
          /\ pc' = "get_and_check_created_bins"
          /\ Len(runs) = iterator - 1
          /\ astrodata' = IF iterator = 1 THEN input_data
                          ELSE runs[iterator - 1].filtered_data
    /\ pc = "get_and_check_created_bins" =>
          /\ pc' \in {"get_and_check_created_bins", "Cordoni_algorithm", "exit"}
          /\ UNCHANGED << astrodata, ellipse_center, iterator, runs >>
    /\ pc = "Cordoni_algorithm" =>
          /\ pc' = "done"
          /\ interpolations' # << >>
          /\ interpolations'[1].dataToFilter = astrodata
          /\ filtered_data' = interpolations'[Len(interpolations')].data_filtered
          /\ UNCHANGED << astrodata, ellipse_center, totalCustomBins, iterator, runs >>
    /\ pc = "done" =>
          /\ runs' = Append(runs, RunOf(iterator))
          /\ UNCHANGED filtered_data
          /\ IF iterator < args.n_iterations
             THEN pc' = "iteration" /\ iterator' = iterator + 1
             ELSE pc' = "returned" /\ iterator' = iterator
    /\ pc' = "returned" =>
          /\ Len(runs') = args.n_iterations
          /\ filtered_data' = runs'[args.n_iterations].filtered_data
    /\ pc \in {"returned", "exit"} => FALSE
    /\ iterator' \in 1..args.n_iterations
    /\ Chained(runs')

\* C19 as stated: unless the binning ends the program, extractCordoniData
\* makes exactly n_iterations iterations, whether or not an iteration removed
\* a row; each iteration determines the centre, then builds the bins, then
\* filters; an iteration works on the rows the iteration before it kept, and
\* the rows returned are the ones the last iteration kept
C19_ExactlyNIterations == [][C19_Step]_vars

\* two iterations were made and returned, the first of which removed a row
C19_Witness ==
    /\ pc = "returned"
    /\ args.n_iterations = 2
    /\ Len(runs) = 2
    /\ runs[1].filtered_data # runs[1].data_to_work
    /\ runs[2].data_to_work = runs[1].filtered_data
    /\ filtered_data = runs[2].filtered_data

\* the centre the first iteration works with
FirstCenterInUse ==
    iterator = 1 /\ pc \in {"get_and_check_created_bins", "Cordoni_algorithm", "done"}

\* the centre of the archive for a cluster, the median of the data otherwise
GivenCenter ==
    get_pmra_based_on_object_identification(object_info, input_data)

CenterOf(i) ==
    IF i <= Len(runs) THEN runs[i].center ELSE ellipse_center

\* the iterations that have their centre
WithCenter ==
    { i \in 1..MaxIterations + 1 :
        \/ i <= Len(runs)
        \/ i = iterator /\ pc \in {"get_and_check_created_bins", "Cordoni_algorithm", "done"} }

\* C21: an iteration after the first works with the centre of the iteration
\* before it when the object is a globular or open cluster and
\* --re-compute-ellipse-center is not given, and with the median of pmra and
\* pmdec of the rows the iteration before it kept in every other case
C21_CenterPolicy ==
    \A i \in WithCenter :
        i > 1 =>
            CenterOf(i) =
                IF object_info.identifiedAs \in {"GlobularCluster", "OpenCluster"}
                   /\ ~ args.re_compute_ellipse_center
                THEN CenterOf(i - 1)
                ELSE get_median_pmra_pmdec(runs[i - 1].filtered_data)

\* a second iteration of an object that is no cluster whose centre is not the
\* one of the first iteration, and a cluster would have kept its centre
C21_Witness ==
    /\ iterator = 2
    /\ pc = "Cordoni_algorithm"
    /\ object_info.identifiedAs = "Other"
    /\ ~ args.re_compute_ellipse_center
    /\ ellipse_center # runs[1].center
    /\ ellipse_center = get_median_pmra_pmdec(runs[1].filtered_data)

----------------------------------------------------------------------------
(* Claims about one iteration with several filters, checked under SpecSeq *)

\* the first call of Cordoni_algorithm has returned
FirstPassDone == pc = "done"

\* the criteria switched on
EnabledCriteria ==
    { Filters(args)[k].name : k \in { j \in DOMAIN Filters(args) : ~ Filters(args)[j].off } }

\* the orders in which the enabled filters can be applied
Orders ==
    { o \in [1..Cardinality(EnabledCriteria) -> EnabledCriteria] :
        \A i, j \in DOMAIN o : i # j => o[i] # o[j] }

\* do_interpolation applied for the criteria of order, one after the other,
\* with the bins, centre and sigma of the iteration
RECURSIVE ApplyInOrder(_, _)
ApplyInOrder(order, data) ==
    IF order = << >> THEN data
    ELSE ApplyInOrder(Tail(order),
                      do_interpolation(args, totalCustomBins, data, Head(order),
                                       args.sigma, ellipse_center).data_filtered)

\* the rows of data that the filter of every enabled criterion, applied to
\* data alone, keeps
PassingEveryCriterion(data) ==
    LET alone == [var \in EnabledCriteria |->
                     do_interpolation(args, totalCustomBins, data, var,
                                      args.sigma, ellipse_center).mask]
    IN SelectIdx(data,
                 [i \in DOMAIN data |-> \A var \in EnabledCriteria : alone[var][i]],
                 1)

\* the curves a filter builds from the given bins
CurvesFrom(bins, var) ==
    << create_points_to_interpolate(args, bins, var, args.sigma),
       IF var = "parallax"
       THEN create_points_to_interpolate(args, bins, var, -args.sigma)
       ELSE << >> >>

\* the bins of the rows a call was given
BinsOfInput(call) ==
    create_bins(args, call.dataToFilter, args.n_divisions, ellipse_center)

\* the filter steps of one iteration leave the bins as they are
C22_Step ==
    pc = "Cordoni_algorithm" =>
        /\ totalCustomBins' = totalCustomBins
        /\ totalCustomBins = create_bins(args, astrodata, args.n_divisions, ellipse_center)
        /\ \A k \in DOMAIN interpolations' :
              << interpolations'[k].points, interpolations'[k].points_left >>
                  = CurvesFrom(totalCustomBins, interpolations'[k].varToInterpolate)

\* C22: the bins of an iteration are built once, from the rows and the centre
\* the iteration starts with; every enabled filter builds its curves from
\* those bins, also when an earlier filter removed rows, and no filter
\* changes the bins
C22_OneBinSetPerIteration == [][C22_Step]_vars

\* two filters ran, the first removed a row, and the bins of the rows it kept
\* would have given the second filter another curve
C22_Witness ==
    /\ FirstPassDone
    /\ Len(interpolations) >= 2
    /\ interpolations[1].data_filtered # astrodata
    /\ BinsOfInput(interpolations[2]) # totalCustomBins
    /\ check_if_total_bins_has_at_least_2_elems_or_more(BinsOfInput(interpolations[2]))
    /\ CurvesFrom(BinsOfInput(interpolations[2]), interpolations[2].varToInterpolate)
          # << interpolations[2].points, interpolations[2].points_left >>

\* the enabled criteria in the order of Cordoni_algorithm
OrderOfCordoni ==
    LET name(f) == f.name
        on(f) == ~ f.off
        enabled == SelectSeq(Filters(args), on)
    IN [k \in DOMAIN enabled |-> name(enabled[k])]

\* C23: Cordoni_algorithm called on the rows it returned, with the same
\* bins, centre and sigma, returns all of them; so does the sequence of the
\* enabled filters applied by hand to the rows it keeps
C23_SecondPassRemovesNothing ==
    /\ pc = "done again" => filtered_data = astrodata
    /\ pc = "Cordoni_algorithm" =>
          ApplyInOrder(OrderOfCordoni, ApplyInOrder(OrderOfCordoni, astrodata))
              = ApplyInOrder(OrderOfCordoni, astrodata)

\* the first call removed a row, two filters ran in the second call, and the
\* second call returned what it was given
C23_Witness ==
    /\ pc = "done again"
    /\ astrodata # input_data
    /\ Len(interpolations) >= 2
    /\ interpolations[1].dataToFilter = astrodata
    /\ filtered_data = astrodata

----------------------------------------------------------------------------
(* Claims about the checks before the data is read, checked under SpecCheck *)

\* nothing has been read and no iteration has started
NothingLoaded ==
    input_data = << >> /\ astrodata = << >> /\ iterator = 0 /\ runs = << >>

\* the step of check_arguments_provided_for_Cordoni_algorithm
Checking == pc = "check_arguments_provided_for_Cordoni_algorithm"

\* the three conditions C24 names
RejectedAsStated ==
    \/ args.no_as_gof_al /\ args.no_mu_R /\ args.no_parallax
    \/ args.n_iterations <= 0
    \/ args.set_limits /\ args.mag_lower_limit >= args.mag_upper_limit

\* the limits are compared whether or not --set-limits is given, and a run
\* that shows all plots and hides each of them is rejected too
RejectedAsCoded ==
    \/ args.no_as_gof_al /\ args.no_mu_R /\ args.no_parallax
    \/ args.n_iterations <= 0
    \/ args.mag_lower_limit >= args.mag_upper_limit
    \/ args.show_all_plots /\ args.no_plot_as_gof_al /\ args.no_plot_mu_R
       /\ args.no_plot_parallax

\* C24 as stated: the check rejects exactly the runs with the three filters
\* disabled, a non-positive iteration count, or custom limits with the lower
\* one not below the upper one
C24_RejectsExactlyThree ==
    [][Checking => (pc' = "exit" <=> RejectedAsStated)]_vars

\* C24: before anything is read and before any iteration, the check rejects
\* exactly the runs with the three filters disabled, a non-positive iteration
\* count, a lower limit not below the upper limit (with or without
\* --set-limits), or --show-all-plots together with the three --no-plot
\* options; a rejected run takes no further step
C24_RejectsExactlyFour ==
    [][/\ Checking => /\ pc' = "exit" <=> RejectedAsCoded
                       /\ NothingLoaded /\ NothingLoaded'
       /\ pc # "exit"]_vars

\* a run rejected for its limits alone, which --set-limits was not given for
C24_Witness ==
    /\ pc = "exit"
    /\ ~ args.set_limits
    /\ args.mag_lower_limit >= args.mag_upper_limit
    /\ args.n_iterations > 0
    /\ ~ (args.no_as_gof_al /\ args.no_mu_R /\ args.no_parallax)
    /\ ~ args.show_all_plots
    /\ get_mag_filter_name(args.set_mag_filter)
    /\ NothingLoaded

----------------------------------------------------------------------------
(* Claims about the fitted lines, checked under Spec *)

\* the pairs of points of a curve eq_straight_line was called on: each point
\* of a bin with the next one, and the last of them with the appended end
FittedPairs(curve) == 2..(Len(curve) - 1)

\* the line stored with point k passes through point k and point k + 1 of the
\* curve drawn at the given sigma
PassesThrough(curve, k, sigma) ==
    /\ curve[k].m * curve[k].mag_median + curve[k].c
          = (curve[k].median_value + sigma * curve[k].std_value) * curve[k].den
    /\ curve[k].m * curve[k + 1].mag_median + curve[k].c
          = (curve[k + 1].median_value + sigma * curve[k + 1].std_value) * curve[k].den

\* the line fitted to two points of different magnitude passes through both
LinesThroughDistinctPoints ==
    \A n \in DOMAIN interpolations :
        \A k \in FittedPairs(interpolations[n].points) :
            interpolations[n].points[k].mag_median
                # interpolations[n].points[k + 1].mag_median
            => PassesThrough(interpolations[n].points, k, args.sigma)

\* C25 as stated: eq_straight_line returns the line through its two points
\* when their x differ and returns no slope and intercept when they share
\* their x, so that no curve of a finished call holds a line fitted to two
\* points of one magnitude
C25_DegenerateLineFails ==
    /\ LinesThroughDistinctPoints
    /\ \A n \in DOMAIN interpolations :
          \A k \in FittedPairs(interpolations[n].points) :
              interpolations[n].points[k].mag_median
                  # interpolations[n].points[k + 1].mag_median

----------------------------------------------------------------------------
(* Claims about the ranges of the ellipse search, checked under SpecEllipse *)

\* the three ranges searched, each with the option it was made from
RangesSearched ==
    { [values |-> w_array, given |-> args.width, n_step |-> args.n_divisions_in_width],
      [values |-> h_array, given |-> args.height, n_step |-> args.n_divisions_in_height],
      [values |-> a_array, given |-> args.inclination,
       n_step |-> args.n_divisions_in_inclination] }

\* count_stars_inside_ellipse has made the ranges
RangesMade == pc # "count_stars_inside_ellipse"

\* n_step values, from the minimum on, each as far from the one before it
EvenlyFromMinimum(r) ==
    /\ Len(r.values) = r.n_step
    /\ r.values[1] = amin(r.given)
    /\ \A i \in 1..(r.n_step - 1) :
          (r.values[i + 1] - r.values[i]) * (r.n_step - 1) = amax(r.given) - amin(r.given)

\* C26 as stated: a range holds stepCount evenly spaced values that include
\* the minimum and the maximum, for every stepCount >= 1
C26_BothEndpointsAlways ==
    RangesMade =>
        \A r \in RangesSearched :
            EvenlyFromMinimum(r) /\ r.values[Len(r.values)] = amax(r.given)

\* C26: a range holds stepCount evenly spaced values starting at the minimum;
\* it ends at the maximum when stepCount >= 2, and is the minimum alone when
\* stepCount = 1, also when the maximum is another value
C26_EndpointsFromTwoSteps ==
    RangesMade =>
        \A r \in RangesSearched :
            /\ EvenlyFromMinimum(r)
            /\ r.n_step >= 2 => r.values[Len(r.values)] = amax(r.given)
            /\ r.n_step = 1 => r.values = << amin(r.given) >>

\* a width range of one step between two different widths holds the smaller
\* width alone, while the height range of two steps reaches both its ends
C26_Witness ==
    /\ RangesMade
    /\ args.n_divisions_in_width = 1
    /\ amin(args.width) # amax(args.width)
    /\ w_array = << amin(args.width) >>
    /\ args.n_divisions_in_height = 2
    /\ amin(args.height) # amax(args.height)
    /\ h_array = << amin(args.height), amax(args.height) >>

----------------------------------------------------------------------------
(* Claims about the tables the controller is given, checked under SpecIter *)

\* the binning and the filters of an iteration are at work
InsideIteration == pc \in {"get_and_check_created_bins", "Cordoni_algorithm"}

\* a step leaves the table read from the file, the table the iteration works
\* on, and the tables the earlier iterations worked on as they were
C27_Step ==
    /\ input_data' = input_data
    /\ InsideIteration => astrodata' = astrodata
    /\ \A i \in DOMAIN runs :
          i \in DOMAIN runs' /\ runs'[i].data_to_work = runs[i].data_to_work
    /\ Chained(runs')

RECURSIVE IsSubSeq(_, _)
IsSubSeq(s, t) ==
    IF s = << >> THEN TRUE
    ELSE IF t = << >> THEN FALSE
    ELSE IF Head(s) = Head(t) THEN IsSubSeq(Tail(s), Tail(t))
    ELSE IsSubSeq(s, Tail(t))

\* every filter call so far returned some of the rows it was given
FilterStepsNarrow ==
    \A n \in DOMAIN interpolations :
        /\ IsSubSeq(interpolations[n].data_filtered, interpolations[n].dataToFilter)
        /\ n > 1 => interpolations[n].dataToFilter = interpolations[n - 1].data_filtered

\* C28: every filter call returns some of the rows it was given, unchanged
\* and in their order; every iteration returns some of the rows it was
\* given; the number of rows never grows from one iteration to the next, and
\* the rows returned at the end are rows of the table read from the file
C28_OnlyNarrows ==
    /\ FilterStepsNarrow
    /\ pc \in {"done", "returned"} =>
          IsSubSeq(filtered_data, astrodata) /\ IsSubSeq(filtered_data, input_data)
    /\ \A i \in DOMAIN runs :
          /\ IsSubSeq(runs[i].filtered_data, runs[i].data_to_work)
          /\ IsSubSeq(runs[i].filtered_data, input_data)
          /\ Len(runs[i].filtered_data) <= Len(runs[i].data_to_work)
          /\ i > 1 => Len(runs[i].data_to_work) <= Len(runs[i - 1].data_to_work)

\* two iterations each removed a row and the rows returned are rows read
C28_Witness ==
    /\ pc = "returned"
    /\ Len(runs) = 2
    /\ Len(runs[1].filtered_data) < Len(runs[1].data_to_work)
    /\ Len(runs[2].filtered_data) < Len(runs[2].data_to_work)
    /\ IsSubSeq(filtered_data, input_data)
    /\ filtered_data # << >>

\* the counts tried by the binning of an iteration, first to last
FirstTried(tried) == tried[1].nDivision

LastTried(tried) == tried[Len(tried)].nDivision

\* C29: the binning of every iteration after the first starts from the
\* count the iteration before it ended with (the count written back to
\* args.n_divisions), every iteration ends with the last count it tried, and
\* the count an iteration ends with is never above the one before it
C29_CountCarriedOver ==
    /\ \A i \in DOMAIN runs :
          /\ runs[i].n_divisions = LastTried(runs[i].attempts)
          /\ runs[i].n_divisions <= FirstTried(runs[i].attempts)
          /\ i > 1 => /\ FirstTried(runs[i].attempts) = runs[i - 1].n_divisions
                      /\ runs[i].n_divisions <= runs[i - 1].n_divisions
    /\ (pc \in {"get_and_check_created_bins", "Cordoni_algorithm", "done", "exit"}
        /\ runs # << >> /\ attempts # << >>) =>
          FirstTried(attempts) = runs[Len(runs)].n_divisions
    /\ (pc \in {"Cordoni_algorithm", "done"} /\ attempts # << >>) =>
          args.n_divisions = LastTried(attempts)

\* the first iteration gave up the requested count and the second started
\* from the smaller one
C29_Witness ==
    /\ pc = "returned"
    /\ Len(runs) = 2
    /\ runs[1].n_divisions < FirstTried(runs[1].attempts)
    /\ FirstTried(runs[2].attempts) = runs[1].n_divisions

\* a second iteration that itself had to give up the count it started from
C29_SecondShrinks ==
    /\ pc = "returned"
    /\ Len(runs) = 2
    /\ FirstTried(runs[2].attempts) = FirstTried(runs[1].attempts)
    /\ runs[2].n_divisions < FirstTried(runs[2].attempts)

----------------------------------------------------------------------------
(* Claims about the order of the filters, checked under SpecSeq *)

\* C30: with the bins, centre and sigma of an iteration, the enabled filters
\* applied in any order keep the same rows, namely the rows that every
\* enabled filter keeps when applied alone; these are the rows
\* Cordoni_algorithm returns
C30_FiltersCommute ==
    /\ pc = "Cordoni_algorithm" =>
          LET passing == PassingEveryCriterion(astrodata)
          IN \A o \in Orders : ApplyInOrder(o, astrodata) = passing
    /\ FirstPassDone => filtered_data = PassingEveryCriterion(astrodata)

\* two filters ran, each removed a row the other alone keeps, and the rows
\* returned are those both keep
C30_Witness ==
    /\ FirstPassDone
    /\ Len(interpolations) = 2
    /\ \E i, j \in DOMAIN astrodata :
          /\ ~ interpolations[1].mask[i]
          /\ do_interpolation(args, totalCustomBins, astrodata,
                              interpolations[2].varToInterpolate, args.sigma,
                              ellipse_center).mask[i]
          /\ interpolations[1].mask[j]
          /\ ~ do_interpolation(args, totalCustomBins, astrodata,
                                interpolations[2].varToInterpolate, args.sigma,
                                ellipse_center).mask[j]
    /\ filtered_data = PassingEveryCriterion(astrodata)

\* the three filters, each removing a row, applied by hand in every order
C30_ThreeFilters ==
    /\ pc = "Cordoni_algorithm"
    /\ EnabledCriteria = Criteria
    /\ \A var \in Criteria : ApplyInOrder(<< var >>, astrodata) # astrodata
    /\ PassingEveryCriterion(astrodata) # << >>

====
